---------------------------- MODULE Spec2Model ----------------------------
(***************************************************************************)
(* Model of the gram-mitra plant disease diagnostic engine:                *)
(*   src/json_graph_connector.py    JSONGraphConnector (graph store,       *)
(*                                  fuzzy matcher, ranker, differentiator) *)
(*   src/diagnostic_system_json.py  PlantDiseaseDignosticSystemGraphDirect *)
(*                                  (the conversation engine)              *)
(* Symptom texts are TLA+ strings handled character by character with      *)
(* Len, SubSeq and \o, so that lower(), strip(), split(), "in" and the     *)
(* regular expression of _clean_symptom_text are computed as Python        *)
(* computes them.                                                          *)
(***************************************************************************)
EXTENDS Integers, Sequences, FiniteSets, TLC

(***************************************************************************)
(* Python string primitives                                                *)
(***************************************************************************)

\* The letters str.lower() changes into a letter a string here can hold, in
\* code point order, and below the lower-case letter of each, position by
\* position.  A string here holds the characters below \u0100 and the
\* characters of the upper half of every later block of 256.
UpperLetters ==
    "ABCDEFGHIJKLMNOPQRSTUVWXYZÀÁÂÃÄÅÆÇÈÉÊËÌÍ"
    \o "ÎÏÐÑÒÓÔÕÖØÙÚÛÜÝÞƂƄƇƋƎƑƘƠƢƤƦƧƩƬƮƯƱƲƳƵƷƸƼǄ"
    \o "ǅǇǈǊǋǍǏǑǓǕǗǙǛǞǠǢǤǦǨǪǬǮǱǲǴǶǷǸǺǼǾΆΈΉΊΌΎΏΑΒ"
    \o "ΓΔΕΖΗΘΙΚΛΜΝΞΟΠΡΣΤΥΦΧΨΩΪΫϏϘϚϜϞϠϢϤϦϨϪϬϮϴϷϹ"
    \o "ϺҀҊҌҎҐҒҔҖҘҚҜҞҠҢҤҦҨҪҬҮҰҲҴҶҸҺҼҾӀӁӃӅӇӉӋӍӐӒӔ"
    \o "ӖӘӚӜӞӠӢӤӦӨӪӬӮӰӲӴӶӸӺӼӾᎰᎱᎲᎳᎴᎵᎶᎷᎸᎹᎺᎻᎼᎽᎾᎿᏀᏁᏂ"
    \o "ᏃᏄᏅᏆᏇᏈᏉᏊᏋᏌᏍᏎᏏᏐᏑᏒᏓᏔᏕᏖᏗᏘᏙᏚᏛᏜᏝᏞᏟᏠᏡᏢᏣᏤᏥᏦᏧᏨᏩᏪ"
    \o "ᏫᏬᏭᏮᏯᏰᏱᏲᏳᏴᏵᲐᲑᲒᲓᲔᲕᲖᲗᲘᲙᲚᲛᲜᲝᲞᲟᲠᲡᲢᲣᲤᲥᲦᲧᲨᲩᲪᲫᲬ"
    \o "ᲭᲮᲯᲰᲱᲲᲳᲴᲵᲶᲷᲸᲹᲺᲽᲾᲿẀẂẄẆẈẊẌẎẐẒẔẞẠẢẤẦẨẪẬẮẰẲẴ"
    \o "ẶẸẺẼẾỀỂỄỆỈỊỌỎỐỒỔỖỘỚỜỞỠỢỤỦỨỪỬỮỰỲỴỶỸỺỼỾᾈᾉᾊ"
    \o "ᾋᾌᾍᾎᾏᾘᾙᾚᾛᾜᾝᾞᾟᾨᾩᾪᾫᾬᾭᾮᾯᾸᾹᾼῌῘῙῨῩῬῼↃⒶⒷⒸⒹⒺⒻⒼⒽ"
    \o "ⒾⒿⓀⓁⓂⓃⓄⓅⓆⓇⓈⓉⓊⓋⓌⓍⓎⓏⲀⲂⲄⲆⲈⲊⲌⲎⲐⲒⲔⲖⲘⲚⲜⲞⲠⲢⲤⲦⲨⲪ"
    \o "ⲬⲮⲰⲲⲴⲶⲸⲺⲼⲾⳀⳂⳄⳆⳈⳊⳌⳎⳐⳒⳔⳖⳘⳚⳜⳞⳠⳢⳫⳭⳲꚀꚂꚄꚆꚈꚊꚌꚎꚐ"
    \o "ꚒꚔꚖꚘꚚꞀꞂꞄꞆꞋꞐꞒꞖꞘꞚꞜꞞꞠꞢꞤꞦꞨꞰꞱꞲꞴꞶꞸꞺꞼꞾꟀꟂꟄꟅꟆꟇꟉꟐꟖ"
    \o "ꟘꟵ"

LowerLetters ==
    "abcdefghijklmnopqrstuvwxyzàáâãäåæçèéêëìí"
    \o "îïðñòóôõöøùúûüýþƃƅƈƌǝƒƙơƣƥʀƨʃƭʈưʊʋƴƶʒƹƽǆ"
    \o "ǆǉǉǌǌǎǐǒǔǖǘǚǜǟǡǣǥǧǩǫǭǯǳǳǵƕƿǹǻǽǿάέήίόύώαβ"
    \o "γδεζηθικλμνξοπρστυφχψωϊϋϗϙϛϝϟϡϣϥϧϩϫϭϯθϸϲ"
    \o "ϻҁҋҍҏґғҕҗҙқҝҟҡңҥҧҩҫҭүұҳҵҷҹһҽҿӏӂӄӆӈӊӌӎӑӓӕ"
    \o "ӗәӛӝӟӡӣӥӧөӫӭӯӱӳӵӷӹӻӽӿꮀꮁꮂꮃꮄꮅꮆꮇꮈꮉꮊꮋꮌꮍꮎꮏꮐꮑꮒ"
    \o "ꮓꮔꮕꮖꮗꮘꮙꮚꮛꮜꮝꮞꮟꮠꮡꮢꮣꮤꮥꮦꮧꮨꮩꮪꮫꮬꮭꮮꮯꮰꮱꮲꮳꮴꮵꮶꮷꮸꮹꮺ"
    \o "ꮻꮼꮽꮾꮿᏸᏹᏺᏻᏼᏽაბგდევზთიკლმნოპჟრსტუფქღყშჩცძწ"
    \o "ჭხჯჰჱჲჳჴჵჶჷჸჹჺჽჾჿẁẃẅẇẉẋẍẏẑẓẕßạảấầẩẫậắằẳẵ"
    \o "ặẹẻẽếềểễệỉịọỏốồổỗộớờởỡợụủứừửữựỳỵỷỹỻỽỿᾀᾁᾂ"
    \o "ᾃᾄᾅᾆᾇᾐᾑᾒᾓᾔᾕᾖᾗᾠᾡᾢᾣᾤᾥᾦᾧᾰᾱᾳῃῐῑῠῡῥῳↄⓐⓑⓒⓓⓔⓕⓖⓗ"
    \o "ⓘⓙⓚⓛⓜⓝⓞⓟⓠⓡⓢⓣⓤⓥⓦⓧⓨⓩⲁⲃⲅⲇⲉⲋⲍⲏⲑⲓⲕⲗⲙⲛⲝⲟⲡⲣⲥⲧⲩⲫ"
    \o "ⲭⲯⲱⲳⲵⲷⲹⲻⲽⲿⳁⳃⳅⳇⳉⳋⳍⳏⳑⳓⳕⳗⳙⳛⳝⳟⳡⳣⳬⳮⳳꚁꚃꚅꚇꚉꚋꚍꚏꚑ"
    \o "ꚓꚕꚗꚙꚛꞁꞃꞅꞇꞌꞑꞓꞗꞙꞛꞝꞟꞡꞣꞥꞧꞩʞʇʝꞵꞷꞹꞻꞽꞿꟁꟃꞔʂᶎꟈꟊꟑꟗ"
    \o "ꟙꟶ"

\* s[i], a one character string (1-based).
CharAt(s, i) == SubSeq(s, i, i)

\* s[i:] with i 1-based.
From(s, i) == SubSeq(s, i, Len(s))

\* The characters of the model's texts in code point order (str comparison).
Ascii == " !,-.0123456789:;?ABCDEFGHIJKLMNOPQRSTUVWXYZabcdefghijklmnopqrstuvwxyz"

\* The letters str.lower() changes: those of UpperLetters, and the letters
\* it changes into a letter no string here can hold.
UpperSet ==
    LET outside ==
        "ƁƆƉƊƏƐƓƔƖƗƜƝƟϽϾϿႠႡႢႣႤႥႦႧႨႩႪႫႬႭႮႯႰႱႲႳႴႵႶႷ"
        \o "ႸႹႺႻႼႽႾႿჀჁჂჃჄჅჇჍᎠᎡᎢᎣᎤᎥᎦᎧᎨᎩᎪᎫᎬᎭᎮᎯᾺΆῈΈῊΉῚΊ"
        \o "ῪΎῸΌῺΏꞍꞪꞫꞬꞭꞮꞳ"
    IN  {CharAt(UpperLetters, i) : i \in 1..Len(UpperLetters)}
           \cup {CharAt(outside, i) : i \in 1..Len(outside)}

\* The lower-case letter of each letter of UpperLetters.
ToLower ==
    [c \in {CharAt(UpperLetters, i) : i \in 1..Len(UpperLetters)} |->
        CharAt(LowerLetters,
               CHOOSE i \in 1..Len(UpperLetters) : CharAt(UpperLetters, i) = c)]

\* str.lower() of one character.  A letter that str.lower() changes into a
\* letter no string here can hold has no lower-case letter here, and
\* LowerChar has no value for it.
LowerChar(c) == IF c \in UpperSet THEN ToLower[c] ELSE c

\* The characters with the property Cased of the Unicode data of the
\* interpreter.
Cased ==
    LET letters ==
        "ABCDEFGHIJKLMNOPQRSTUVWXYZabcdefghijklmn"
        \o "opqrstuvwxyzªµºÀÁÂÃÄÅÆÇÈÉÊËÌÍÎÏÐÑÒÓÔÕÖØÙ"
        \o "ÚÛÜÝÞßàáâãäåæçèéêëìíîïðñòóôõöøùúûüýþÿƀƁƂ"
        \o "ƃƄƅƆƇƈƉƊƋƌƍƎƏƐƑƒƓƔƕƖƗƘƙƚƛƜƝƞƟƠơƢƣƤƥƦƧƨƩƪ"
        \o "ƫƬƭƮƯưƱƲƳƴƵƶƷƸƹƺƼƽƾƿǄǅǆǇǈǉǊǋǌǍǎǏǐǑǒǓǔǕǖǗ"
        \o "ǘǙǚǛǜǝǞǟǠǡǢǣǤǥǦǧǨǩǪǫǬǭǮǯǰǱǲǳǴǵǶǷǸǹǺǻǼǽǾǿ"
        \o "ʀʁʂʃʄʅʆʇʈʉʊʋʌʍʎʏʐʑʒʓʕʖʗʘʙʚʛʜʝʞʟʠʡʢʣʤʥʦʧʨ"
        \o "ʩʪʫʬʭʮʯʰʱʲʳʴʵʶʷʸˀˁˠˡˢˣˤΆΈΉΊΌΎΏΐΑΒΓΔΕΖΗΘΙ"
        \o "ΚΛΜΝΞΟΠΡΣΤΥΦΧΨΩΪΫάέήίΰαβγδεζηθικλμνξοπρς"
        \o "στυφχψωϊϋόύώϏϐϑϒϓϔϕϖϗϘϙϚϛϜϝϞϟϠϡϢϣϤϥϦϧϨϩϪ"
        \o "ϫϬϭϮϯϰϱϲϳϴϵϷϸϹϺϻϼϽϾϿҀҁҊҋҌҍҎҏҐґҒғҔҕҖҗҘҙҚқ"
        \o "ҜҝҞҟҠҡҢңҤҥҦҧҨҩҪҫҬҭҮүҰұҲҳҴҵҶҷҸҹҺһҼҽҾҿӀӁӂӃ"
        \o "ӄӅӆӇӈӉӊӋӌӍӎӏӐӑӒӓӔӕӖӗӘәӚӛӜӝӞӟӠӡӢӣӤӥӦӧӨөӪӫ"
        \o "ӬӭӮӯӰӱӲӳӴӵӶӷӸӹӺӻӼӽӾӿրցւփքօֆևֈႠႡႢႣႤႥႦႧႨႩႪ"
        \o "ႫႬႭႮႯႰႱႲႳႴႵႶႷႸႹႺႻႼႽႾႿჀჁჂჃჄჅჇჍაბგდევზთიკლ"
        \o "მნოპჟრსტუფქღყშჩცძწჭხჯჰჱჲჳჴჵჶჷჸჹჺჽჾჿᎠᎡᎢᎣᎤ"
        \o "ᎥᎦᎧᎨᎩᎪᎫᎬᎭᎮᎯᎰᎱᎲᎳᎴᎵᎶᎷᎸᎹᎺᎻᎼᎽᎾᎿᏀᏁᏂᏃᏄᏅᏆᏇᏈᏉᏊᏋᏌ"
        \o "ᏍᏎᏏᏐᏑᏒᏓᏔᏕᏖᏗᏘᏙᏚᏛᏜᏝᏞᏟᏠᏡᏢᏣᏤᏥᏦᏧᏨᏩᏪᏫᏬᏭᏮᏯᏰᏱᏲᏳᏴ"
        \o "ᏵᏸᏹᏺᏻᏼᏽᲀᲁᲂᲃᲄᲅᲆᲇᲈᲐᲑᲒᲓᲔᲕᲖᲗᲘᲙᲚᲛᲜᲝᲞᲟᲠᲡᲢᲣᲤᲥᲦᲧ"
        \o "ᲨᲩᲪᲫᲬᲭᲮᲯᲰᲱᲲᲳᲴᲵᲶᲷᲸᲹᲺᲽᲾᲿᶀᶁᶂᶃᶄᶅᶆᶇᶈᶉᶊᶋᶌᶍᶎᶏᶐᶑ"
        \o "ᶒᶓᶔᶕᶖᶗᶘᶙᶚᶛᶜᶝᶞᶟᶠᶡᶢᶣᶤᶥᶦᶧᶨᶩᶪᶫᶬᶭᶮᶯᶰᶱᶲᶳᶴᶵᶶᶷᶸᶹ"
        \o "ᶺᶻᶼᶽᶾᶿẀẁẂẃẄẅẆẇẈẉẊẋẌẍẎẏẐẑẒẓẔẕẖẗẘẙẚẛẜẝẞẟẠạ"
        \o "ẢảẤấẦầẨẩẪẫẬậẮắẰằẲẳẴẵẶặẸẹẺẻẼẽẾếỀềỂểỄễỆệỈỉ"
        \o "ỊịỌọỎỏỐốỒồỔổỖỗỘộỚớỜờỞởỠỡỢợỤụỦủỨứỪừỬửỮữỰự"
        \o "ỲỳỴỵỶỷỸỹỺỻỼỽỾỿᾀᾁᾂᾃᾄᾅᾆᾇᾈᾉᾊᾋᾌᾍᾎᾏᾐᾑᾒᾓᾔᾕᾖᾗᾘᾙ"
        \o "ᾚᾛᾜᾝᾞᾟᾠᾡᾢᾣᾤᾥᾦᾧᾨᾩᾪᾫᾬᾭᾮᾯᾰᾱᾲᾳᾴᾶᾷᾸᾹᾺΆᾼιῂῃῄῆῇ"
        \o "ῈΈῊΉῌῐῑῒΐῖῗῘῙῚΊῠῡῢΰῤῥῦῧῨῩῪΎῬῲῳῴῶῷῸΌῺΏῼₐₑ"
        \o "ₒₓₔₕₖₗₘₙₚₛₜↃↄⒶⒷⒸⒹⒺⒻⒼⒽⒾⒿⓀⓁⓂⓃⓄⓅⓆⓇⓈⓉⓊⓋⓌⓍⓎⓏⓐ"
        \o "ⓑⓒⓓⓔⓕⓖⓗⓘⓙⓚⓛⓜⓝⓞⓟⓠⓡⓢⓣⓤⓥⓦⓧⓨⓩⲀⲁⲂⲃⲄⲅⲆⲇⲈⲉⲊⲋⲌⲍⲎ"
        \o "ⲏⲐⲑⲒⲓⲔⲕⲖⲗⲘⲙⲚⲛⲜⲝⲞⲟⲠⲡⲢⲣⲤⲥⲦⲧⲨⲩⲪⲫⲬⲭⲮⲯⲰⲱⲲⲳⲴⲵⲶ"
        \o "ⲷⲸⲹⲺⲻⲼⲽⲾⲿⳀⳁⳂⳃⳄⳅⳆⳇⳈⳉⳊⳋⳌⳍⳎⳏⳐⳑⳒⳓⳔⳕⳖⳗⳘⳙⳚⳛⳜⳝⳞ"
        \o "ⳟⳠⳡⳢⳣⳤⳫⳬⳭⳮⳲⳳꚀꚁꚂꚃꚄꚅꚆꚇꚈꚉꚊꚋꚌꚍꚎꚏꚐꚑꚒꚓꚔꚕꚖꚗꚘꚙꚚꚛ"
        \o "ꚜꚝꞀꞁꞂꞃꞄꞅꞆꞇꞋꞌꞍꞎꞐꞑꞒꞓꞔꞕꞖꞗꞘꞙꞚꞛꞜꞝꞞꞟꞠꞡꞢꞣꞤꞥꞦꞧꞨꞩ"
        \o "ꞪꞫꞬꞭꞮꞯꞰꞱꞲꞳꞴꞵꞶꞷꞸꞹꞺꞻꞼꞽꞾꞿꟀꟁꟂꟃꟄꟅꟆꟇꟈꟉꟊꟐꟑꟓꟕꟖꟗꟘ"
        \o "ꟙꟵꟶꟸꟹꟺꮀꮁꮂꮃꮄꮅꮆꮇꮈꮉꮊꮋꮌꮍꮎꮏꮐꮑꮒꮓꮔꮕꮖꮗꮘꮙꮚꮛꮜꮝꮞꮟꮠꮡ"
        \o "ꮢꮣꮤꮥꮦꮧꮨꮩꮪꮫꮬꮭꮮꮯꮰꮱꮲꮳꮴꮵꮶꮷꮸꮹꮺꮻꮼꮽꮾꮿ"
    IN  {CharAt(letters, i) : i \in 1..Len(letters)}

\* The characters with the property Case_Ignorable.
CaseIgnorable ==
    LET letters ==
        "'.:^¨­¯´·¸ʰʱʲʳʴʵʶʷʸʹʺʻʼʽʾʿˀˁ˂˃˄˅ˆˇˈˉˊˋˌˍ"
        \o "ˎˏːˑ˒˓˔˕˖˗˘˙˚˛˜˝˞˟ˠˡˢˣˤ˥˦˧˨˩˪˫ˬ˭ˮ˯˰˱˲˳˴˵"
        \o "˶˷˸˹˺˻˼˽˾˿΄΅·҃҄҅҆҇҈҉֑֖֛֢֣֤֚֒֓֔֕֗֘֙֜֝֞֟֠֡"
        \o "ְֱֲֳִֵֶַָׇֹֺֻּֽֿׁׂ֥֦֧֪ׅ֭֮֨֩֫֬֯ׄ״ۖۗۘۙۚۛۜ۝"
        \o "ۣ۟۠ۡۢۤۥۦ۪ۭۧۨ۫۬ަާިީުޫެޭޮޯް߲߫߬߭߮߯߰߱߳ߴߵߺ߽࢈࢐"
        \o "࢑࢙࢚࢛࢘࢜࢝࢞࢟ࣉ࣏࣐࣑࣒࣓࣊࣋࣌࣍࣎ࣔࣕࣖࣗࣘࣙࣚࣛࣜࣝࣞࣟ࣠࣡࣢ࣣࣦࣤࣥࣧ"
        \o "ࣰࣱࣲࣩ࣭࣮࣯ࣶࣹࣺࣨ࣪࣫࣬ࣳࣴࣵࣷࣸࣻࣼࣽࣾࣿঁ়ুূৃৄ্ৢৣ৾ઁં઼ુૂૃ"
        \o "ૄૅેૈ્ૢૣૺૻૼ૽૾૿ஂீ்ಁ಼ಿೆೌ್ೢೣඁ්ිීුූັິີຶື຺ຸູົຼ"
        \o "ໆ່້໊໋໌ໍ྄ཱྀྀྂྃ྆྇ྍྎྏྐྑྒྒྷྔྕྖྗྙྚྛྜྜྷྞྟྠྡྡྷྣྤྥྦྦྷ"
        \o "ྨྩྪྫྫྷྭྮྯྰྱྲླྴྵྶྷྸྐྵྺྻྼ࿆ႂႅႆႍႝჼ឴឵ិីឹឺុូួំ៉៊"
        \o "់៌៍៎៏័៑្៓ៗ៝ᢅᢆᢩᪧ᪵᪶᪷᪸᪹᪺᪽᪰᪱᪲᪳᪴᪻᪼᪾ᪿᫀ᫃᫄᫁᫂᫅᫆᫇᫈"
        \o "᫊᫉᫋ᫌᫍᫎᮀᮁᮢᮣᮤᮥᮨᮩ᮫ᮬᮭ᯦ᯨᯩᯭᯯᯰᯱ᳔᳕᳖᳗᳘᳙᳜᳝᳞᳟᳐᳑᳒᳚᳛᳠"
        \o "᳢᳣᳤᳥᳦᳧᳨᳭᳴᳸᳹ᶛᶜᶝᶞᶟᶠᶡᶢᶣᶤᶥᶦᶧᶨᶩᶪᶫᶬᶭᶮᶯᶰᶱᶲᶳᶴᶵᶶᶷ"
        \o "ᶸᶹᶺᶻᶼᶽᶾᶿ᷐᷎᷂᷊᷏᷀᷁᷃᷄᷅᷆᷇᷈᷉᷋᷌᷑᷒ᷓᷔᷕᷖᷗᷘᷙᷚᷛᷜᷝᷞᷟ᷍"
        \o "᷺᷹᷽᷿᷷᷸ᷠᷡᷢᷣᷤᷥᷦᷧᷨᷩᷪᷫᷬᷭᷮᷯᷰᷱᷲᷳᷴ᷵᷻᷾᷶᷼᾽᾿῀῁῍῎῏῝"
        \o "῞῟῭΅`´῾ₐₑₒₓₔₕₖₗₘₙₚₛₜ⃒⃓⃘⃙⃚⃐⃑⃔⃕⃖⃗⃛⃜⃝⃞⃟⃠⃡⃢⃣"
        \o "⃤⃥⃦⃪⃫⃨⃬⃭⃮⃯⃧⃩⃰⳯⳰⳱ⷠⷡⷢⷣⷤⷥⷦⷧⷨⷩⷪⷫⷬⷭⷮⷯⷰⷱⷲⷳⷴⷵⷶⷷ"
        \o "゙゚ⷸⷹⷺⷻⷼⷽⷾⷿ゛゜ゝゞーヽヾꓸꓹꓺꓻꓼꓽꚜꚝꚞꚟ꛰꛱ꞈ꞉꞊ꟲꟳꟴꟸꟹ꣄ꣅ꣠"
        \o "꣡꣢꣣꣤꣥꣦꣧꣨꣩꣪꣫꣬꣭꣮꣯꣰꣱ꣿꦀꦁꦂ꦳ꦶꦷꦸꦹꦼꦽꧏꧥꧦꪴꪰꪲꪳꪷꪸꪾ꪿꫁"
        \o "ꫝꫬꫭꫳꫴ꫶ꯥꯨ꯭﮲﮳﮴﮵﮶﮷﮸﮹﮺﮻﮼﮽﮾﮿﯀﯁﯂﻿ﾞﾟ￣￹￺￻"
    IN  {CharAt(letters, i) : i \in 1..Len(letters)}

\* The capital sigma at s[i] ends a word: the nearest character before it
\* that is not case-ignorable is cased, and the nearest one after it that
\* is not case-ignorable, if there is one, is not cased.
FinalSigma(s, i) ==
    /\ \E j \in 1..(i - 1) :
          /\ CharAt(s, j) \notin CaseIgnorable
          /\ CharAt(s, j) \in Cased
          /\ \A k \in (j + 1)..(i - 1) : CharAt(s, k) \in CaseIgnorable
    /\ \A j \in (i + 1)..Len(s) :
          (/\ CharAt(s, j) \notin CaseIgnorable
           /\ \A k \in (i + 1)..(j - 1) : CharAt(s, k) \in CaseIgnorable)
             => CharAt(s, j) \notin Cased

\* str.lower() from s[i] on: the capital sigma becomes the final sigma at
\* the end of a word, and the small sigma elsewhere.
RECURSIVE LowerFrom(_, _)
LowerFrom(s, i) ==
    IF i > Len(s) THEN ""
    ELSE (IF CharAt(s, i) = "Σ"
          THEN IF FinalSigma(s, i) THEN "ς" ELSE "σ"
          ELSE LowerChar(CharAt(s, i))) \o LowerFrom(s, i + 1)

\* str.lower()
Lower(s) == LowerFrom(s, 1)

\* The characters str.strip(), str.split() and the regex class \s treat as
\* white space, of those a string here can hold: the space, the tab, the
\* line feed, the carriage return, the form feed, and, written raw, the
\* vertical tab \x0b, the separators \x1c to \x1f, the next line \x85,
\* the no-break space \xa0 and the ogham space mark \u1680.  The spaces
\* from \u2000 on lie in the lower half of their block of 256 and cannot
\* be written in a string of the module.
IsSpace(c) ==
    c \in {" ", "\t", "\n", "\r", "\f",
           "", "", "", "", "", "", " ", " "}

\* The argument of .strip('.,;:!?') in _clean_symptom_text.
IsPunct(c) == c \in {".", ",", ";", ":", "!", "?"}

\* str.lstrip() / str.rstrip() / str.strip() with no argument.
RECURSIVE LStripSpace(_)
LStripSpace(s) ==
    IF s # "" /\ IsSpace(CharAt(s, 1)) THEN LStripSpace(From(s, 2)) ELSE s

RECURSIVE RStripSpace(_)
RStripSpace(s) ==
    IF s # "" /\ IsSpace(CharAt(s, Len(s)))
    THEN RStripSpace(SubSeq(s, 1, Len(s) - 1)) ELSE s

Strip(s) == RStripSpace(LStripSpace(s))

\* str.strip('.,;:!?'): what it strips on the left, and on the right.
RECURSIVE LStripPunct(_)
LStripPunct(s) ==
    IF s # "" /\ IsPunct(CharAt(s, 1)) THEN LStripPunct(From(s, 2)) ELSE s

RECURSIVE RStripPunct(_)
RStripPunct(s) ==
    IF s # "" /\ IsPunct(CharAt(s, Len(s)))
    THEN RStripPunct(SubSeq(s, 1, Len(s) - 1)) ELSE s

\* re.sub(r'\s+', ' ', s): every maximal run of white space becomes one space.
RECURSIVE CollapseSpaces(_)
CollapseSpaces(s) ==
    IF s = "" THEN ""
    ELSE IF IsSpace(CharAt(s, 1))
         THEN " " \o CollapseSpaces(LStripSpace(s))
         ELSE CharAt(s, 1) \o CollapseSpaces(From(s, 2))

\* Python's "t in s" on strings.
Contains(s, t) ==
    \E i \in 0..(Len(s) - Len(t)) : SubSeq(s, i + 1, i + Len(t)) = t

\* The first word of a string that starts with a non-space character.
RECURSIVE FirstWord(_)
FirstWord(s) ==
    IF s = "" \/ IsSpace(CharAt(s, 1)) THEN ""
    ELSE CharAt(s, 1) \o FirstWord(From(s, 2))

\* set(s.split()): the set of the white-space separated words of s.
RECURSIVE Words(_)
Words(s) ==
    LET t == LStripSpace(s) IN
    IF t = "" THEN {}
    ELSE LET w == FirstWord(t) IN {w} \cup Words(From(t, Len(w) + 1))

\* The code point order of two one character strings.
CodeOf ==
    [c \in {CharAt(Ascii, i) : i \in 1..Len(Ascii)} |->
        CHOOSE i \in 1..Len(Ascii) : CharAt(Ascii, i) = c]

CharCode(c) == CodeOf[c]

\* Python's a < b on strings.
RECURSIVE StrLess(_, _)
StrLess(a, b) ==
    IF b = "" THEN FALSE
    ELSE IF a = "" THEN TRUE
    ELSE IF CharAt(a, 1) = CharAt(b, 1) THEN StrLess(From(a, 2), From(b, 2))
    ELSE CharCode(CharAt(a, 1)) < CharCode(CharAt(b, 1))

\* min() of two numbers.
Min(a, b) == IF a < b THEN a ELSE b

(***************************************************************************)
(* SymptomMatcher: JSONGraphConnector._clean_symptom_text, _symptoms_match *)
(***************************************************************************)

CleanSymptomText(text) ==
    IF text = "" THEN ""
    ELSE Lower(CollapseSpaces(RStripPunct(LStripPunct(Strip(text)))))

stop_words == {"on", "the", "of", "in", "at", "with", "and", "or", "a", "an"}

\* The table symptom_keywords, in the order of the dict: <<keyword, synonyms>>.
symptom_keywords ==
    << <<"yellow", {"yellowing", "chlorosis"}>>,
       <<"brown",  {"browning", "necrosis"}>>,
       <<"wilt",   {"wilting", "drooping"}>>,
       <<"spot",   {"spots", "lesions", "patches"}>>,
       <<"dry",    {"drying", "dried", "dessication"}>>,
       <<"rot",    {"rotting", "decay", "decomposition"}>>,
       <<"stunt",  {"stunted", "stunting", "dwarf"}>> >>

\* The keyword loop testing the keyword on the user's side only.
KeywordMatch_UserKeywordOnly(u, d) ==
    \E k \in 1..Len(symptom_keywords) :
        LET keyword  == symptom_keywords[k][1]
            synonyms == symptom_keywords[k][2]
        IN  /\ Contains(u, keyword)
            /\ \/ \E syn \in synonyms : Contains(d, syn)
               \/ Contains(d, keyword)

\* The loop over symptom_keywords.items() at the end of _symptoms_match.
KeywordMatch(u, d) ==
    \E k \in 1..Len(symptom_keywords) :
        LET keyword  == symptom_keywords[k][1]
            synonyms == symptom_keywords[k][2]
        IN  \/ /\ Contains(u, keyword)
               /\ \/ \E syn \in synonyms : Contains(d, syn)
                  \/ Contains(d, keyword)
            \/ /\ \E syn \in synonyms : Contains(u, syn)
               /\ \/ Contains(d, keyword)
                  \/ \E syn \in synonyms : Contains(d, syn)

\* len(intersection) / len(union) > 0.5, on integers.
WordOverlap(user_words, disease_words) ==
    2 * Cardinality(user_words \cap disease_words)
        > Cardinality(user_words \cup disease_words)

SymptomsMatch(user_symptom, disease_symptom) ==
    LET u == Strip(Lower(user_symptom))
        d == Strip(Lower(disease_symptom))
        user_words    == Words(u) \ stop_words
        disease_words == Words(d) \ stop_words
    IN  IF u = d THEN TRUE
        ELSE IF Contains(d, u) \/ Contains(u, d) THEN TRUE
        ELSE IF user_words = {} \/ disease_words = {} THEN FALSE
        ELSE IF WordOverlap(user_words, disease_words) THEN TRUE
        ELSE KeywordMatch(u, d)

(***************************************************************************)
(* The graphs of the model                                                 *)
(***************************************************************************)

\* create_sample_json_graph: 3 diseases, 5 symptoms, 3 solutions.
SampleGraph ==
    [nodes |-> <<
        [id |-> "disease_1", type |-> "Disease", name |-> "Bacterial Leaf Spot"],
        [id |-> "disease_2", type |-> "Disease", name |-> "Iron Chlorosis"],
        [id |-> "disease_3", type |-> "Disease", name |-> "Powdery Mildew"],
        [id |-> "symptom_1", type |-> "Symptom", name |-> "brown spots"],
        [id |-> "symptom_2", type |-> "Symptom", name |-> "yellowing leaves"],
        [id |-> "symptom_3", type |-> "Symptom", name |-> "white powdery coating"],
        [id |-> "symptom_4", type |-> "Symptom", name |-> "leaf drop"],
        [id |-> "symptom_5", type |-> "Symptom", name |-> "stunted growth"],
        [id |-> "solution_1", type |-> "Solution", name |-> "Copper Fungicide"],
        [id |-> "solution_2", type |-> "Solution", name |-> "Iron Supplement"],
        [id |-> "solution_3", type |-> "Solution", name |-> "Fungicide Spray"] >>,
     relationships |-> <<
        [source |-> "disease_1", target |-> "symptom_1", type |-> "HAS_SYMPTOM"],
        [source |-> "disease_1", target |-> "symptom_4", type |-> "HAS_SYMPTOM"],
        [source |-> "disease_2", target |-> "symptom_2", type |-> "HAS_SYMPTOM"],
        [source |-> "disease_2", target |-> "symptom_5", type |-> "HAS_SYMPTOM"],
        [source |-> "disease_3", target |-> "symptom_3", type |-> "HAS_SYMPTOM"],
        [source |-> "disease_3", target |-> "symptom_2", type |-> "HAS_SYMPTOM"],
        [source |-> "disease_1", target |-> "solution_1", type |-> "HAS_SOLUTION"],
        [source |-> "disease_2", target |-> "solution_2", type |-> "HAS_SOLUTION"],
        [source |-> "disease_3", target |-> "solution_3", type |-> "HAS_SOLUTION"] >>]

\* load_graph_data when the file is missing: {"nodes": [], "relationships": []}.
EmptyGraph == [nodes |-> <<>>, relationships |-> <<>>]

\* Three diseases that share one symptom, two of them a second one, so
\* that a session can stay tied over many questions.  The nodes of type
\* PlantDisease and the four relationship types are used.
TieGraph ==
    [nodes |-> <<
        [id |-> "d1", type |-> "Disease", name |-> "Leaf Curl Virus"],
        [id |-> "d2", type |-> "PlantDisease", name |-> "Aphid Damage"],
        [id |-> "d3", type |-> "Disease", name |-> "Spider Mites"],
        [id |-> "s0", type |-> "Symptom", name |-> "leaf curl"],
        [id |-> "s1", type |-> "Symptom", name |-> "pale veins"],
        [id |-> "s2", type |-> "Symptom", name |-> "brittle stems"],
        [id |-> "s3", type |-> "Symptom", name |-> "small fruit"],
        [id |-> "s4", type |-> "Symptom", name |-> "sticky residue"],
        [id |-> "s5", type |-> "Symptom", name |-> "black mold"],
        [id |-> "s6", type |-> "Symptom", name |-> "deformed buds"],
        [id |-> "s7", type |-> "Symptom", name |-> "fine webbing"] >>,
     relationships |-> <<
        [source |-> "d1", target |-> "s0", type |-> "HAS_SYMPTOM"],
        [source |-> "d1", target |-> "s1", type |-> "MANIFESTS_AS"],
        [source |-> "d1", target |-> "s2", type |-> "SHOWS"],
        [source |-> "d1", target |-> "s3", type |-> "EXHIBITS"],
        [source |-> "d2", target |-> "s0", type |-> "HAS_SYMPTOM"],
        [source |-> "d2", target |-> "s4", type |-> "HAS_SYMPTOM"],
        [source |-> "d2", target |-> "s5", type |-> "HAS_SYMPTOM"],
        [source |-> "d2", target |-> "s6", type |-> "HAS_SYMPTOM"],
        [source |-> "d3", target |-> "s0", type |-> "HAS_SYMPTOM"],
        [source |-> "d3", target |-> "s1", type |-> "SHOWS"],
        [source |-> "d3", target |-> "s7", type |-> "HAS_SYMPTOM"] >>]

\* A disease of two symptoms nested in a disease of five: the ranking can
\* reach 2/2 against 4/5.
NestedGraph ==
    [nodes |-> <<
        [id |-> "d1", type |-> "Disease", name |-> "Scale Insects"],
        [id |-> "d2", type |-> "Disease", name |-> "Sooty Mold"],
        [id |-> "s1", type |-> "Symptom", name |-> "black film"],
        [id |-> "s2", type |-> "Symptom", name |-> "sticky sap"],
        [id |-> "s3", type |-> "Symptom", name |-> "bumps"],
        [id |-> "s4", type |-> "Symptom", name |-> "dieback"],
        [id |-> "s5", type |-> "Symptom", name |-> "leaf loss"] >>,
     relationships |-> <<
        [source |-> "d1", target |-> "s1", type |-> "HAS_SYMPTOM"],
        [source |-> "d1", target |-> "s2", type |-> "HAS_SYMPTOM"],
        [source |-> "d1", target |-> "s3", type |-> "HAS_SYMPTOM"],
        [source |-> "d1", target |-> "s4", type |-> "HAS_SYMPTOM"],
        [source |-> "d1", target |-> "s5", type |-> "HAS_SYMPTOM"],
        [source |-> "d2", target |-> "s1", type |-> "HAS_SYMPTOM"],
        [source |-> "d2", target |-> "s2", type |-> "HAS_SYMPTOM"] >>]

\* Two diseases that share 21 symptoms; the second has one symptom more.
WideGraph ==
    [nodes |-> <<
        [id |-> "d1", type |-> "Disease", name |-> "Alpha Blight"],
        [id |-> "d2", type |-> "Disease", name |-> "Beta Blight"],
        [id |-> "m01", type |-> "Symptom", name |-> "mark 01"],
        [id |-> "m02", type |-> "Symptom", name |-> "mark 02"],
        [id |-> "m03", type |-> "Symptom", name |-> "mark 03"],
        [id |-> "m04", type |-> "Symptom", name |-> "mark 04"],
        [id |-> "m05", type |-> "Symptom", name |-> "mark 05"],
        [id |-> "m06", type |-> "Symptom", name |-> "mark 06"],
        [id |-> "m07", type |-> "Symptom", name |-> "mark 07"],
        [id |-> "m08", type |-> "Symptom", name |-> "mark 08"],
        [id |-> "m09", type |-> "Symptom", name |-> "mark 09"],
        [id |-> "m10", type |-> "Symptom", name |-> "mark 10"],
        [id |-> "m11", type |-> "Symptom", name |-> "mark 11"],
        [id |-> "m12", type |-> "Symptom", name |-> "mark 12"],
        [id |-> "m13", type |-> "Symptom", name |-> "mark 13"],
        [id |-> "m14", type |-> "Symptom", name |-> "mark 14"],
        [id |-> "m15", type |-> "Symptom", name |-> "mark 15"],
        [id |-> "m16", type |-> "Symptom", name |-> "mark 16"],
        [id |-> "m17", type |-> "Symptom", name |-> "mark 17"],
        [id |-> "m18", type |-> "Symptom", name |-> "mark 18"],
        [id |-> "m19", type |-> "Symptom", name |-> "mark 19"],
        [id |-> "m20", type |-> "Symptom", name |-> "mark 20"],
        [id |-> "m21", type |-> "Symptom", name |-> "mark 21"],
        [id |-> "m99", type |-> "Symptom", name |-> "mark 99"] >>,
     relationships |-> <<
        [source |-> "d1", target |-> "m01", type |-> "HAS_SYMPTOM"],
        [source |-> "d1", target |-> "m02", type |-> "HAS_SYMPTOM"],
        [source |-> "d1", target |-> "m03", type |-> "HAS_SYMPTOM"],
        [source |-> "d1", target |-> "m04", type |-> "HAS_SYMPTOM"],
        [source |-> "d1", target |-> "m05", type |-> "HAS_SYMPTOM"],
        [source |-> "d1", target |-> "m06", type |-> "HAS_SYMPTOM"],
        [source |-> "d1", target |-> "m07", type |-> "HAS_SYMPTOM"],
        [source |-> "d1", target |-> "m08", type |-> "HAS_SYMPTOM"],
        [source |-> "d1", target |-> "m09", type |-> "HAS_SYMPTOM"],
        [source |-> "d1", target |-> "m10", type |-> "HAS_SYMPTOM"],
        [source |-> "d1", target |-> "m11", type |-> "HAS_SYMPTOM"],
        [source |-> "d1", target |-> "m12", type |-> "HAS_SYMPTOM"],
        [source |-> "d1", target |-> "m13", type |-> "HAS_SYMPTOM"],
        [source |-> "d1", target |-> "m14", type |-> "HAS_SYMPTOM"],
        [source |-> "d1", target |-> "m15", type |-> "HAS_SYMPTOM"],
        [source |-> "d1", target |-> "m16", type |-> "HAS_SYMPTOM"],
        [source |-> "d1", target |-> "m17", type |-> "HAS_SYMPTOM"],
        [source |-> "d1", target |-> "m18", type |-> "HAS_SYMPTOM"],
        [source |-> "d1", target |-> "m19", type |-> "HAS_SYMPTOM"],
        [source |-> "d1", target |-> "m20", type |-> "HAS_SYMPTOM"],
        [source |-> "d1", target |-> "m21", type |-> "HAS_SYMPTOM"],
        [source |-> "d2", target |-> "m01", type |-> "HAS_SYMPTOM"],
        [source |-> "d2", target |-> "m02", type |-> "HAS_SYMPTOM"],
        [source |-> "d2", target |-> "m03", type |-> "HAS_SYMPTOM"],
        [source |-> "d2", target |-> "m04", type |-> "HAS_SYMPTOM"],
        [source |-> "d2", target |-> "m05", type |-> "HAS_SYMPTOM"],
        [source |-> "d2", target |-> "m06", type |-> "HAS_SYMPTOM"],
        [source |-> "d2", target |-> "m07", type |-> "HAS_SYMPTOM"],
        [source |-> "d2", target |-> "m08", type |-> "HAS_SYMPTOM"],
        [source |-> "d2", target |-> "m09", type |-> "HAS_SYMPTOM"],
        [source |-> "d2", target |-> "m10", type |-> "HAS_SYMPTOM"],
        [source |-> "d2", target |-> "m11", type |-> "HAS_SYMPTOM"],
        [source |-> "d2", target |-> "m12", type |-> "HAS_SYMPTOM"],
        [source |-> "d2", target |-> "m13", type |-> "HAS_SYMPTOM"],
        [source |-> "d2", target |-> "m14", type |-> "HAS_SYMPTOM"],
        [source |-> "d2", target |-> "m15", type |-> "HAS_SYMPTOM"],
        [source |-> "d2", target |-> "m16", type |-> "HAS_SYMPTOM"],
        [source |-> "d2", target |-> "m17", type |-> "HAS_SYMPTOM"],
        [source |-> "d2", target |-> "m18", type |-> "HAS_SYMPTOM"],
        [source |-> "d2", target |-> "m19", type |-> "HAS_SYMPTOM"],
        [source |-> "d2", target |-> "m20", type |-> "HAS_SYMPTOM"],
        [source |-> "d2", target |-> "m21", type |-> "HAS_SYMPTOM"],
        [source |-> "d2", target |-> "m99", type |-> "HAS_SYMPTOM"] >>]

\* Twelve diseases that all show rust: more matching diseases than the
\* ranking returns, with equal percentages at different match counts.
CrowdGraph ==
    [nodes |-> <<
        [id |-> "c01", type |-> "Disease", name |-> "Rust 01"],
        [id |-> "c02", type |-> "Disease", name |-> "Rust 02"],
        [id |-> "c03", type |-> "Disease", name |-> "Rust 03"],
        [id |-> "c04", type |-> "Disease", name |-> "Rust 04"],
        [id |-> "c05", type |-> "Disease", name |-> "Rust 05"],
        [id |-> "c06", type |-> "Disease", name |-> "Rust 06"],
        [id |-> "c07", type |-> "Disease", name |-> "Rust 07"],
        [id |-> "c08", type |-> "Disease", name |-> "Rust 08"],
        [id |-> "c09", type |-> "Disease", name |-> "Rust 09"],
        [id |-> "c10", type |-> "Disease", name |-> "Rust 10"],
        [id |-> "c11", type |-> "Disease", name |-> "Rust 11"],
        [id |-> "c12", type |-> "Disease", name |-> "Rust 12"],
        [id |-> "r1", type |-> "Symptom", name |-> "rust"],
        [id |-> "r2", type |-> "Symptom", name |-> "pits"],
        [id |-> "r3", type |-> "Symptom", name |-> "scab"],
        [id |-> "r4", type |-> "Symptom", name |-> "gall"],
        [id |-> "r5", type |-> "Symptom", name |-> "mold"] >>,
     relationships |-> <<
        [source |-> "c01", target |-> "r1", type |-> "HAS_SYMPTOM"],
        [source |-> "c01", target |-> "r3", type |-> "HAS_SYMPTOM"],
        [source |-> "c02", target |-> "r1", type |-> "HAS_SYMPTOM"],
        [source |-> "c02", target |-> "r2", type |-> "HAS_SYMPTOM"],
        [source |-> "c02", target |-> "r3", type |-> "HAS_SYMPTOM"],
        [source |-> "c02", target |-> "r4", type |-> "HAS_SYMPTOM"],
        [source |-> "c03", target |-> "r1", type |-> "HAS_SYMPTOM"],
        [source |-> "c03", target |-> "r2", type |-> "HAS_SYMPTOM"],
        [source |-> "c04", target |-> "r1", type |-> "HAS_SYMPTOM"],
        [source |-> "c04", target |-> "r4", type |-> "HAS_SYMPTOM"],
        [source |-> "c04", target |-> "r5", type |-> "HAS_SYMPTOM"],
        [source |-> "c05", target |-> "r1", type |-> "HAS_SYMPTOM"],
        [source |-> "c05", target |-> "r4", type |-> "HAS_SYMPTOM"],
        [source |-> "c05", target |-> "r5", type |-> "HAS_SYMPTOM"],
        [source |-> "c06", target |-> "r1", type |-> "HAS_SYMPTOM"],
        [source |-> "c06", target |-> "r4", type |-> "HAS_SYMPTOM"],
        [source |-> "c06", target |-> "r5", type |-> "HAS_SYMPTOM"],
        [source |-> "c07", target |-> "r1", type |-> "HAS_SYMPTOM"],
        [source |-> "c07", target |-> "r4", type |-> "HAS_SYMPTOM"],
        [source |-> "c07", target |-> "r5", type |-> "HAS_SYMPTOM"],
        [source |-> "c08", target |-> "r1", type |-> "HAS_SYMPTOM"],
        [source |-> "c08", target |-> "r4", type |-> "HAS_SYMPTOM"],
        [source |-> "c08", target |-> "r5", type |-> "HAS_SYMPTOM"],
        [source |-> "c09", target |-> "r1", type |-> "HAS_SYMPTOM"],
        [source |-> "c09", target |-> "r4", type |-> "HAS_SYMPTOM"],
        [source |-> "c09", target |-> "r5", type |-> "HAS_SYMPTOM"],
        [source |-> "c10", target |-> "r1", type |-> "HAS_SYMPTOM"],
        [source |-> "c10", target |-> "r4", type |-> "HAS_SYMPTOM"],
        [source |-> "c10", target |-> "r5", type |-> "HAS_SYMPTOM"],
        [source |-> "c11", target |-> "r1", type |-> "HAS_SYMPTOM"],
        [source |-> "c11", target |-> "r4", type |-> "HAS_SYMPTOM"],
        [source |-> "c11", target |-> "r5", type |-> "HAS_SYMPTOM"],
        [source |-> "c12", target |-> "r1", type |-> "HAS_SYMPTOM"],
        [source |-> "c12", target |-> "r4", type |-> "HAS_SYMPTOM"],
        [source |-> "c12", target |-> "r5", type |-> "HAS_SYMPTOM"] >>]

\* Two diseases with three symptoms between them; the input 'chlorosis'
\* matches the shared one by the keyword table without containing it.
SmallGraph ==
    [nodes |-> <<
        [id |-> "k1", type |-> "Disease", name |-> "Leaf Yellows"],
        [id |-> "k2", type |-> "Disease", name |-> "Stem Yellows"],
        [id |-> "y1", type |-> "Symptom", name |-> "yellow leaf"],
        [id |-> "y2", type |-> "Symptom", name |-> "scab"],
        [id |-> "y3", type |-> "Symptom", name |-> "pits"] >>,
     relationships |-> <<
        [source |-> "k1", target |-> "y1", type |-> "HAS_SYMPTOM"],
        [source |-> "k1", target |-> "y3", type |-> "HAS_SYMPTOM"],
        [source |-> "k2", target |-> "y1", type |-> "HAS_SYMPTOM"],
        [source |-> "k2", target |-> "y2", type |-> "HAS_SYMPTOM"] >>]

\* The symptoms of the graph below.
Flecks ==
    << "fleck 01", "fleck 02", "fleck 03", "fleck 04", "fleck 05",
       "fleck 06", "fleck 07", "fleck 08", "fleck 09", "fleck 10",
       "fleck 11", "fleck 12", "fleck 13", "fleck 14", "fleck 15",
       "fleck 16", "fleck 17", "fleck 18", "fleck 19", "fleck 20",
       "fleck 21", "fleck 22", "fleck 23", "fleck 24", "fleck 25",
       "fleck 26", "fleck 27", "fleck 28", "fleck 29", "fleck 30",
       "fleck 31", "fleck 32", "fleck 33" >>

\* Two diseases of 20 symptoms each that share 7: the first 20 flecks are
\* the symptoms of the first, the first 7 and the last 13 those of the
\* second.  The name of a symptom is its id.
ScriptGraph ==
    [nodes |->
        << [id |-> "g1", type |-> "Disease", name |-> "Gamma Blight"],
           [id |-> "g2", type |-> "Disease", name |-> "Delta Blight"] >>
        \o [i \in 1..33 |->
               [id |-> Flecks[i], type |-> "Symptom", name |-> Flecks[i]]],
     relationships |->
        [i \in 1..20 |->
            [source |-> "g1", target |-> Flecks[i], type |-> "HAS_SYMPTOM"]]
        \o [i \in 1..20 |->
               [source |-> "g2",
                target |-> Flecks[IF i <= 7 THEN i ELSE i + 13],
                type |-> "HAS_SYMPTOM"]]]

\* The graphs a session may run over, each with the user's vocabulary: the
\* texts a user of that graph types.
Scenarios ==
    << [db |-> SampleGraph,
        inputs |-> {"yellowing leaves", "brown spots", "leaves", "holes",
                    "yes", "no"}],
       [db |-> EmptyGraph,
        inputs |-> {"yellowing leaves", "holes", "yes", "no"}],
       [db |-> TieGraph,
        inputs |-> {"Leaf Curl!", "holes", "webs", "galls", "Yes ", "NO"}],
       [db |-> NestedGraph,
        inputs |-> {"black film", "sticky sap", "bumps", "dieback",
                    "observed", "no"}],
       [db |-> WideGraph,
        inputs |-> {"mark 01", "yes", "no"}],
       [db |-> CrowdGraph,
        inputs |-> {"rust", "pits", "yes", "no"}],
       [db |-> SmallGraph,
        inputs |-> {"chlorosis", "yes", "no"}] >>

Graphs == {Scenarios[i].db : i \in 1..Len(Scenarios)}

UserInputs(graph) ==
    UNION {Scenarios[i].inputs : i \in {j \in 1..Len(Scenarios) :
                                          Scenarios[j].db = graph}}

(***************************************************************************)
(* GraphStore: JSONGraphConnector.__init__, build_indices                  *)
(* A graph is [nodes |-> <<[id, type, name]>>,                             *)
(*             relationships |-> <<[source, target, type]>>], both in file *)
(* order.  A node's description is carried to the prompt only and is left  *)
(* out.  A connector is a graph with its indices: [nodes, relationships,   *)
(* nodes_by_id, nodes_by_type, relationships_by_source].  An index maps a  *)
(* key to the positions in the graph of the nodes or relationships it      *)
(* lists, which stand for the objects the lists of the code hold.  The     *)
(* methods of the connector read the graph through the indices.            *)
(***************************************************************************)

\* index.get(key, [])
DictGet(index, key) == IF key \in DOMAIN index THEN index[key] ELSE <<>>

\* self.nodes_by_type.get(node_type, []): the nodes at the positions the
\* index lists.
nodes_by_type(db, node_type) ==
    [i \in 1..Len(DictGet(db.nodes_by_type, node_type)) |->
        db.nodes[DictGet(db.nodes_by_type, node_type)[i]]]

\* self.relationships_by_source.get(source, [])
relationships_by_source(db, source) ==
    [i \in 1..Len(DictGet(db.relationships_by_source, source)) |->
        db.relationships[DictGet(db.relationships_by_source, source)[i]]]

\* self.nodes_by_id.get(id) is a node
HasNode(db, id) == id \in DOMAIN db.nodes_by_id

\* self.nodes_by_id.get(id)
nodes_by_id(db, id) == db.nodes[db.nodes_by_id[id]]

\* for node_type in ['Disease', 'PlantDisease']: disease_nodes.extend(...)
DiseaseNodes(db) ==
    nodes_by_type(db, "Disease") \o nodes_by_type(db, "PlantDisease")

SymptomRelTypes == {"HAS_SYMPTOM", "MANIFESTS_AS", "SHOWS", "EXHIBITS"}

\* if target_node and target_node.get('type') == 'Symptom' and symptom_name
IsSymptomNode(db, id) ==
    /\ HasNode(db, id)
    /\ nodes_by_id(db, id).type = "Symptom"
    /\ nodes_by_id(db, id).name # ""

\* The clean symptom names that a list of relationships links to.
LinkedSymptoms(db, rels) ==
    {CleanSymptomText(nodes_by_id(db, rels[i].target).name) :
        i \in {j \in 1..Len(rels) : /\ rels[j].type \in SymptomRelTypes
                                    /\ IsSymptomNode(db, rels[j].target)}}
      \ {""}

\* The clean symptom names linked to a disease node by a recognised
\* relationship (the inner loop shared by find_diseases_by_symptoms and
\* find_differentiating_symptoms), as the set list(set(...)) holds.
DiseaseSymptoms(db, disease_node) ==
    LinkedSymptoms(db, relationships_by_source(db, disease_node.id))

(***************************************************************************)
(* The indices of the store as objects: build_indices makes each a         *)
(* defaultdict(list).  Reading one with .get leaves it as it is; reading   *)
(* one with [key] inserts a missing key with an empty list.                *)
(***************************************************************************)

\* The positions of the relationships of a source, in file order.
RelationshipPositions(graph, source) ==
    SelectSeq([i \in 1..Len(graph.relationships) |-> i],
              LAMBDA i : graph.relationships[i].source = source)

NodeTypes(graph) == {graph.nodes[i].type : i \in 1..Len(graph.nodes)}

\* "if source:": only a truthy source is indexed.
RelationshipSources(graph) ==
    {graph.relationships[i].source : i \in 1..Len(graph.relationships)} \ {""}

\* JSONGraphConnector.build_indices
BuildIndices(graph) ==
    [nodes_by_type |->
        [node_type \in NodeTypes(graph) |->
            SelectSeq([i \in 1..Len(graph.nodes) |-> i],
                      LAMBDA i : graph.nodes[i].type = node_type)],
     relationships_by_source |->
        [source \in RelationshipSources(graph) |->
            RelationshipPositions(graph, source)]]

\* The connector object: graph_data, nodes_by_id and the two indices the
\* methods read.  nodes_by_id is {node['id']: node for node in nodes}: the
\* dict comprehension keeps the last node of an id.
Connector(graph, store) ==
    [nodes |-> graph.nodes,
     relationships |-> graph.relationships,
     nodes_by_id |->
        [id \in {graph.nodes[i].id : i \in 1..Len(graph.nodes)} |->
            CHOOSE i \in 1..Len(graph.nodes) :
                /\ graph.nodes[i].id = id
                /\ \A j \in (i + 1)..Len(graph.nodes) : graph.nodes[j].id # id],
     nodes_by_type |-> store.nodes_by_type,
     relationships_by_source |-> store.relationships_by_source]

\* JSONGraphConnector(json_file_path): the connector as __init__ leaves it.
JSONGraphConnector(graph) == Connector(graph, BuildIndices(graph))

\* index[key] on a defaultdict(list): the index after the read.
DefaultDictItem(index, key) ==
    IF key \in DOMAIN index THEN index
    ELSE [k \in DOMAIN index \cup {key} |->
            IF k = key THEN <<>> ELSE index[k]]

\* The labels of get_schema as a fixed list instead of the types found.
SchemaLabels_FixedList(graph) == {"Disease", "Symptom", "Solution", "Unknown"}

\* The labels get_schema counts: the types of the nodes of graph_data.
SchemaLabels(graph) == NodeTypes(graph)

\* "for node_type in node_types: count = len(self.nodes_by_type[node_type])":
\* the index after the reads of the loop.  The reads commute.
RECURSIVE ReadEach(_, _)
ReadEach(index, keys) ==
    IF keys = {} THEN index
    ELSE LET key == CHOOSE k \in keys : TRUE
         IN  ReadEach(DefaultDictItem(index, key), keys \ {key})

\* The lists list(set(...)) can build of a set: its elements, each once, in
\* the order the iteration of the set gives, which the language leaves
\* open.
ListsOfSet(set) ==
    {list \in [1..Cardinality(set) -> set] :
        \A i, j \in 1..Cardinality(set) : list[i] = list[j] => i = j}

\* type_counts[:10]
SchemaLimit == 10

\* type_counts.sort(key=lambda x: x[1], reverse=True): the sort is stable,
\* entries with equal counts keep the order they were appended in.
RECURSIVE SortCounts(_)
SortCounts(type_counts) ==
    IF type_counts = <<>> THEN <<>>
    ELSE LET sorted == SortCounts(SubSeq(type_counts, 1, Len(type_counts) - 1))
             entry == type_counts[Len(type_counts)]
             before == Cardinality({i \in 1..Len(sorted) :
                                       sorted[i][2] >= entry[2]})
         IN  SubSeq(sorted, 1, before) \o <<entry>>
                \o SubSeq(sorted, before + 1, Len(sorted))

\* JSONGraphConnector.get_schema: the indices after the call and the schema
\* returned.  node_types is the list list(set(...)) built of the types of
\* the nodes: its order decides which of the entries with equal counts
\* come first in node_counts and survive the cut.  An entry of node_counts
\* is ([node_type], count).  Of the lists node_labels and
\* relationship_types the model keeps the elements.
GetSchema(graph, store, node_types) ==
    [indices |-> [store EXCEPT !.nodes_by_type =
                     ReadEach(@, SchemaLabels(graph))],
     schema |->
        [node_labels |-> {node_types[i] : i \in 1..Len(node_types)},
         relationship_types |->
            {graph.relationships[i].type : i \in 1..Len(graph.relationships)},
         node_counts |->
            SubSeq(SortCounts(
                      [i \in 1..Len(node_types) |->
                          <<<<node_types[i]>>,
                            Len(ReadEach(store.nodes_by_type,
                                         SchemaLabels(graph))[node_types[i]])>>]),
                   1, Min(SchemaLimit, Len(node_types)))]]

\* The relationship types get_solutions_for_disease follows.
IsSolutionRel(rel_type) ==
    \/ Contains(Lower(rel_type), "solution")
    \/ Contains(Lower(rel_type), "treatment")
    \/ Lower(rel_type) = "treated_by"

\* JSONGraphConnector.get_solutions_for_disease: the names of the solutions
\* of the first disease node of that name, in file order.  It reads the
\* indices with .get only.
GetSolutionsForDisease(graph, disease_name) ==
    LET named == SelectSeq(DiseaseNodes(graph),
                           LAMBDA node : node.name = disease_name)
        rels  == IF named = <<>> THEN <<>>
                 ELSE SelectSeq(relationships_by_source(graph, named[1].id),
                        LAMBDA rel :
                            /\ IsSolutionRel(rel.type)
                            /\ HasNode(graph, rel.target)
                            /\ nodes_by_id(graph, rel.target).type = "Solution"
                            /\ nodes_by_id(graph, rel.target).name # "")
    IN  [i \in 1..Len(rels) |-> nodes_by_id(graph, rels[i].target).name]

(***************************************************************************)
(* The texts of the model, and the matcher and the cleaners tabulated     *)
(* over them.  A table holds the results of the operator it tabulates and  *)
(* nothing else; it spares the model checker from working through the same *)
(* texts character by character in every state.  A text outside the tables *)
(* is computed directly.                                                   *)
(***************************************************************************)

\* What the engine stores of an input: user_input.strip(), then .lower().
StoredTexts ==
    {Lower(Strip(i)) :
        i \in UNION {Scenarios[j].inputs : j \in 1..Len(Scenarios)}}

GraphTexts ==
    UNION {{CleanSymptomText(g.nodes[i].name) : i \in 1..Len(g.nodes)} :
              g \in Graphs \cup {ScriptGraph}}

Texts ==
    GraphTexts \cup StoredTexts
        \cup {CleanSymptomText(Lower(t)) : t \in StoredTexts}

MatchTable == [u \in Texts |-> {d \in Texts : SymptomsMatch(u, d)}]

\* self._symptoms_match(user_symptom, disease_symptom)
Matches(user_symptom, disease_symptom) ==
    IF user_symptom \in Texts /\ disease_symptom \in Texts
    THEN disease_symptom \in MatchTable[user_symptom]
    ELSE SymptomsMatch(user_symptom, disease_symptom)

CleanTable == [t \in Texts |-> CleanSymptomText(Lower(t))]

\* self._clean_symptom_text(s.lower())
CleanLower(s) ==
    IF s \in Texts THEN CleanTable[s] ELSE CleanSymptomText(Lower(s))

StripTable == [t \in Texts |-> Strip(Lower(t))]

\* s.lower().strip()
LowerStrip(s) == IF s \in Texts THEN StripTable[s] ELSE Strip(Lower(s))

(***************************************************************************)
(* DiseaseRanker: JSONGraphConnector.find_diseases_by_symptoms             *)
(* Every intermediate value of the code is the argument of the operator    *)
(* that models the next step, so that it is computed once.                 *)
(***************************************************************************)

\* disease_results[:10]
RankLimit == 10

\* diseases[:8] in the engine's wrapper
EngineLimit == 8

\* a[:n] on a list
Take(seq, n) == SubSeq(seq, 1, Min(n, Len(seq)))

\* len(matched_symptoms): one entry per user symptom that matches some
\* symptom of the disease (the inner loop breaks at the first hit).
\* symptoms_lower is [clean(s.lower()) for s in symptoms], one entry per
\* element of symptoms.
MatchCount(symptoms, all_disease_symptoms) ==
    Cardinality({s \in symptoms :
        \E disease_symptom \in all_disease_symptoms :
            Matches(CleanLower(s), disease_symptom)})

\* total_symptoms = max(len(all_disease_symptoms), 1)
TotalSymptoms(all_disease_symptoms) ==
    IF Cardinality(all_disease_symptoms) > 1
    THEN Cardinality(all_disease_symptoms) ELSE 1

\* The result dict of one disease.  match_percentage is the quotient
\* match_count / total_symptoms; the model keeps the two integers and
\* compares quotients by cross multiplication.
ResultDict(disease_name, all_disease_symptoms, symptoms) ==
    [name           |-> disease_name,
     all_symptoms   |-> all_disease_symptoms,
     match_count    |-> MatchCount(symptoms, all_disease_symptoms),
     total_symptoms |-> TotalSymptoms(all_disease_symptoms)]

DiseaseResult(db, disease_node, symptoms) ==
    ResultDict(disease_node.name, DiseaseSymptoms(db, disease_node), symptoms)

\* The sort key reduced to match_percentage.
KeyGreater_PercentOnly(x, y) ==
    x.match_count * y.total_symptoms > y.match_count * x.total_symptoms

\* x's key (match_percentage, match_count) is greater than y's.
KeyGreater(x, y) ==
    \/ x.match_count * y.total_symptoms > y.match_count * x.total_symptoms
    \/ /\ x.match_count * y.total_symptoms = y.match_count * x.total_symptoms
       /\ x.match_count > y.match_count

\* list.sort(key=..., reverse=True): descending by key, equal keys keep
\* their order in the list (the sort is stable).
FirstOf(results, indices) ==
    CHOOSE i \in indices : \A j \in indices \ {i} :
        \/ KeyGreater(results[i], results[j])
        \/ (~KeyGreater(results[j], results[i]) /\ i < j)

RECURSIVE SortFrom(_, _, _)
SortFrom(results, indices, first) ==
    IF indices = {first} THEN <<results[first]>>
    ELSE <<results[first]>>
           \o SortFrom(results, indices \ {first},
                       FirstOf(results, indices \ {first}))

SortResults(results) ==
    IF results = <<>> THEN <<>>
    ELSE SortFrom(results, 1..Len(results), FirstOf(results, 1..Len(results)))

\* The loop over disease_nodes keeping the diseases without a match.
MatchedResults_Unfiltered(db, disease_nodes, symptoms) ==
    [i \in 1..Len(disease_nodes) |->
        DiseaseResult(db, disease_nodes[i], symptoms)]

\* The loop over disease_nodes: one result per disease node, kept when
\* matched_symptoms is not empty.
MatchedResults(db, disease_nodes, symptoms) ==
    SelectSeq([i \in 1..Len(disease_nodes) |->
                  DiseaseResult(db, disease_nodes[i], symptoms)],
              LAMBDA r : r.match_count > 0)

\* JSONGraphConnector.find_diseases_by_symptoms
ConnectorFindDiseases(db, symptoms) ==
    IF symptoms = {} THEN <<>>
    ELSE Take(SortResults(MatchedResults(db, DiseaseNodes(db), symptoms)),
              RankLimit)

\* PlantDiseaseDignosticSystemGraphDirect.find_diseases_by_symptoms
FindDiseasesBySymptoms(db, symptoms) ==
    IF symptoms = {} THEN <<>>
    ELSE Take(ConnectorFindDiseases(db, symptoms), EngineLimit)

(***************************************************************************)
(* DifferentiatorSelector: JSONGraphConnector.find_differentiating_symptoms*)
(* and the engine's find_best_differentiating_symptom_from_graph           *)
(***************************************************************************)

\* results[:20]
DiffLimit == 20

\* self.possible_diseases[:5]
TopDiseases == 5

\* Python's None, for last_asked_symptom and for "no result".  Symptom
\* texts reach the engine lower-cased, so none of them equals it.
None == "None"

\* The disease nodes whose name is in disease_names, Disease then
\* PlantDisease, in file order.
NamedDiseaseNodes(db, disease_names) ==
    SelectSeq(DiseaseNodes(db), LAMBDA node :
        \E i \in 1..Len(disease_names) : disease_names[i] = node.name)

\* NotExcluded without the pass over _symptoms_match.
NotExcluded_ExactOnly(clean_symptom, excluded_lower) ==
    clean_symptom \notin excluded_lower

\* clean_symptom not in excluded_lower, and no excluded symptom matches it.
NotExcluded(clean_symptom, excluded_lower) ==
    /\ clean_symptom \notin excluded_lower
    /\ ~ \E excluded \in excluded_lower : Matches(clean_symptom, excluded)

\* symptom_disease_map as the set of its (symptom, disease name) pairs.
SymptomDiseasePairs(db, nodes, excluded_lower) ==
    UNION {{<<sym, nodes[i].name>> :
               sym \in {c \in DiseaseSymptoms(db, nodes[i]) :
                           NotExcluded(c, excluded_lower)}} :
           i \in 1..Len(nodes)}

\* One entry of results.
DiffResult(symptom, diseases) ==
    [symptom |-> symptom, diseases |-> diseases,
     count |-> Cardinality(diseases)]

\* "Convert to result format"
DiffResults(pairs) ==
    {DiffResult(sym, {p[2] : p \in {q \in pairs : q[1] = sym}}) :
        sym \in {p[1] : p \in pairs}}

\* results.sort(key=lambda x: (-x['count'], x['symptom']))
DiffBefore(x, y) ==
    \/ x.count > y.count
    \/ (x.count = y.count /\ StrLess(x.symptom, y.symptom))

DiffFirst(results) ==
    CHOOSE x \in results : \A y \in results \ {x} : DiffBefore(x, y)

RECURSIVE SortDiffFrom(_, _)
SortDiffFrom(results, first) ==
    IF results = {first} THEN <<first>>
    ELSE <<first>> \o SortDiffFrom(results \ {first},
                                   DiffFirst(results \ {first}))

SortDiff(results) ==
    IF results = {} THEN <<>> ELSE SortDiffFrom(results, DiffFirst(results))

\* excluded_lower = {clean(s.lower()) for s in excluded_symptoms}
ExcludedLower(excluded_symptoms) ==
    {CleanLower(s) : s \in excluded_symptoms}

\* JSONGraphConnector.find_differentiating_symptoms
FindDifferentiatingSymptoms(db, disease_names, excluded_symptoms) ==
    IF disease_names = <<>> THEN <<>>
    ELSE Take(SortDiff(DiffResults(SymptomDiseasePairs(
                  db, NamedDiseaseNodes(db, disease_names),
                  ExcludedLower(excluded_symptoms)))),
              DiffLimit)

\* The differentiation score from num_diseases_with and
\* num_diseases_without, in tenths: min(with, without) + 0.1 * with, or 0
\* when the symptom does not split the diseases.
\* ScoreOf without the case "score = 0  # Doesn't help differentiate".
ScoreOf_AlwaysScored(num_diseases_with, num_diseases_without) ==
    10 * Min(num_diseases_with, num_diseases_without) + num_diseases_with

ScoreOf(num_diseases_with, num_diseases_without) ==
    IF num_diseases_with = 0 \/ num_diseases_without = 0 THEN 0
    ELSE 10 * Min(num_diseases_with, num_diseases_without)
             + num_diseases_with

\* Score with num_diseases_without taken as len(disease_names).
Score_WithoutIsAll(symptom_info, disease_names) ==
    ScoreOf(Cardinality(symptom_info.diseases), Len(disease_names))

Score(symptom_info, disease_names) ==
    ScoreOf(Cardinality(symptom_info.diseases),
            Len(disease_names) - Cardinality(symptom_info.diseases))

\* The scoring loop: best_symptom is replaced only by a strictly greater
\* score, so the first of the greatest wins.  best is an index into results,
\* 0 for None.
RECURSIVE ScoreLoop(_, _, _, _, _, _)
ScoreLoop(results, disease_names, all_excluded, i, best, best_score) ==
    IF i > Len(results) THEN best
    ELSE IF LowerStrip(results[i].symptom) \in all_excluded
         THEN ScoreLoop(results, disease_names, all_excluded,
                        i + 1, best, best_score)
    ELSE IF Score(results[i], disease_names) > best_score
         THEN ScoreLoop(results, disease_names, all_excluded,
                        i + 1, i, Score(results[i], disease_names))
    ELSE ScoreLoop(results, disease_names, all_excluded,
                   i + 1, best, best_score)

\* The names passed to the selector: [d['name'] for d in possible[:5]].
DiseaseNamesOf(possible_diseases) ==
    [i \in 1..Min(TopDiseases, Len(possible_diseases)) |->
        possible_diseases[i].name]

\* all_excluded without the asked symptoms: a symptom asked about and
\* answered with a new symptom stays open to the selector.
AllExcluded_WithoutAsked(self) ==
    {LowerStrip(s) : s \in self.confirmed_symptoms
                             \cup self.ruled_out_symptoms}

\* all_excluded: confirmed, ruled out and asked, each .lower().strip().
AllExcluded(self) ==
    {LowerStrip(s) : s \in self.confirmed_symptoms
                             \cup self.ruled_out_symptoms
                             \cup self.asked_symptoms}

\* return best_symptom['symptom'] if best_symptom else None
BestSymptom(results, best) ==
    IF best = 0 THEN None ELSE results[best].symptom

\* The part of find_best_differentiating_symptom_from_graph after the
\* graph query.
BestOf(results, disease_names, all_excluded) ==
    IF results = <<>> THEN None
    ELSE BestSymptom(results,
             ScoreLoop(results, disease_names, all_excluded, 1, 0, 0))

\* select(disease_names, all_excluded): the query and the scoring.
Select(db, disease_names, all_excluded) ==
    BestOf(FindDifferentiatingSymptoms(db, disease_names, all_excluded),
           disease_names, all_excluded)

\* find_best_differentiating_symptom_from_graph: the symptom, or None.
FindBestDifferentiatingSymptom(db, self) ==
    IF self.possible_diseases = <<>> THEN None
    ELSE Select(db, DiseaseNamesOf(self.possible_diseases), AllExcluded(self))

(***************************************************************************)
(* Floats.  A Python float is an IEEE 754 double: a sign, 53 mantissa bits *)
(* and an exponent.  The model keeps the bits, most significant first, as  *)
(* a sequence, and the exponent of the last bit: the value is              *)
(* (the integer the bits spell) * 2^exp.  Zero has all bits 0; any other   *)
(* float has the first bit 1.  Division and subtraction round to nearest,  *)
(* ties to even.  The counts are far from the range where a double         *)
(* overflows or is subnormal.                                              *)
(***************************************************************************)

MantissaBits == 53

Zeros(n) == [i \in 1..n |-> 0]

FloatZero == [neg |-> FALSE, bits |-> Zeros(MantissaBits), exp |-> 0]

\* bits + 1: of the same length, or one bit longer when all bits are 1.
Increment(bits) ==
    IF \A i \in 1..Len(bits) : bits[i] = 1
    THEN <<1>> \o Zeros(Len(bits))
    ELSE LET last == CHOOSE i \in 1..Len(bits) :
                        /\ bits[i] = 0
                        /\ \A j \in (i + 1)..Len(bits) : bits[j] = 1
         IN  [i \in 1..Len(bits) |->
                 IF i < last THEN bits[i] ELSE IF i = last THEN 1 ELSE 0]

\* The float of MantissaBits kept bits, rounded up or not: a carry out of
\* the first bit moves the exponent.
Rounded(neg, kept, exp, up) ==
    LET bits == IF up THEN Increment(kept) ELSE kept
    IN  IF Len(bits) > MantissaBits
        THEN [neg |-> neg, bits |-> SubSeq(bits, 1, MantissaBits),
              exp |-> exp + 1]
        ELSE [neg |-> neg, bits |-> bits, exp |-> exp]

\* a / b = (a' / b') * 2^e with b' <= a' < 2 * b'.
RECURSIVE Normalize(_, _, _)
Normalize(a, b, e) ==
    IF a < b THEN Normalize(2 * a, b, e - 1)
    ELSE IF a >= 2 * b THEN Normalize(a, 2 * b, e + 1)
    ELSE [a |-> a, b |-> b, e |-> e]

\* Long division, ChunkBits bits of the quotient at a time: the remainder
\* after c chunks, and chunk c of the quotient.
ChunkBits == 13

Chunks == (MantissaBits - 1) \div ChunkBits

RECURSIVE ChunkRem(_, _, _)
ChunkRem(rem, b, c) ==
    IF c = 0 THEN rem ELSE (ChunkRem(rem, b, c - 1) * 2^ChunkBits) % b

Chunk(rem, b, c) == (ChunkRem(rem, b, c - 1) * 2^ChunkBits) \div b

\* The first MantissaBits bits of a / b, b <= a < 2 * b, and the remainder
\* left.
QuotientBits(a, b) ==
    LET chunk == [c \in 1..Chunks |-> Chunk(a - b, b, c)]
    IN  [bits |->
            [k \in 1..MantissaBits |->
                IF k = 1 THEN 1
                ELSE (chunk[(k - 2) \div ChunkBits + 1]
                        \div 2^(ChunkBits - 1 - ((k - 2) % ChunkBits))) % 2],
         rem |-> ChunkRem(a - b, b, Chunks)]

\* a / b on two ints, a >= 0 and b > 0: the double nearest to the quotient.
\* A float literal num/den in decimal is the same double.
TrueDiv(a, b) ==
    IF a = 0 THEN FloatZero
    ELSE LET n == Normalize(a, b, 0)
             q == QuotientBits(n.a, n.b)
         IN  Rounded(FALSE, q.bits, n.e - (MantissaBits - 1),
                     \/ 2 * q.rem > n.b
                     \/ (2 * q.rem = n.b /\ q.bits[MantissaBits] = 1))

\* The bits of the magnitude of a float as an integer of n bits in units
\* of 2^low.
Aligned(x, low, n) ==
    Zeros(n - Len(x.bits) - (x.exp - low)) \o x.bits \o Zeros(x.exp - low)

\* x > y on two integers of the same number of bits.
BitsGreater(x, y) ==
    \E i \in 1..Len(x) :
        /\ x[i] > y[i]
        /\ \A j \in 1..(i - 1) : x[j] = y[j]

\* x - y on two integers of the same number of bits, x >= y: a bit borrows
\* when the bits after it spell less in x than in y.
SubBits(x, y) ==
    [i \in 1..Len(x) |->
        (2 + x[i] - y[i]
           - IF \E k \in (i + 1)..Len(x) :
                   /\ x[k] < y[k]
                   /\ \A j \in (i + 1)..(k - 1) : x[j] = y[j]
             THEN 1 ELSE 0) % 2]

\* The integer, not zero, without its leading zero bits.
StripZeros(bits) ==
    SubSeq(bits,
           CHOOSE i \in 1..Len(bits) :
              /\ bits[i] = 1
              /\ \A j \in 1..(i - 1) : bits[j] = 0,
           Len(bits))

\* The double nearest to (the integer bits, not zero) * 2^low.
RoundBits(neg, bits, low) ==
    LET d == StripZeros(bits)
        extra == Len(d) - MantissaBits
    IN  IF extra <= 0
        THEN [neg |-> neg, bits |-> d \o Zeros(-extra), exp |-> low + extra]
        ELSE Rounded(neg, SubSeq(d, 1, MantissaBits), low + extra,
                     /\ d[MantissaBits + 1] = 1
                     /\ \/ d[MantissaBits] = 1
                        \/ \E i \in (MantissaBits + 2)..Len(d) : d[i] = 1)

\* x - y on two floats that are not negative.
FloatSub(x, y) ==
    LET low == Min(x.exp, y.exp)
        n == IF Len(x.bits) + x.exp > Len(y.bits) + y.exp
             THEN Len(x.bits) + x.exp - low
             ELSE Len(y.bits) + y.exp - low
        xs == Aligned(x, low, n)
        ys == Aligned(y, low, n)
    IN  IF xs = ys THEN FloatZero
        ELSE IF BitsGreater(xs, ys)
        THEN RoundBits(FALSE, SubBits(xs, ys), low)
        ELSE RoundBits(TRUE, SubBits(ys, xs), low)

\* x > y on floats, y not negative.
FloatGreater(x, y) ==
    IF x.neg \/ x = FloatZero THEN FALSE
    ELSE IF y = FloatZero THEN TRUE
    ELSE IF x.exp # y.exp THEN x.exp > y.exp
    ELSE BitsGreater(x.bits, y.bits)

(***************************************************************************)
(* ConversationEngine: PlantDiseaseDignosticSystemGraphDirect              *)
(* match_percentage is the float match_count / total_symptoms.  The model  *)
(* keeps the two integers.  A comparison of a match_percentage with a      *)
(* literal, or of two of them in the sort of the ranking, decides on the   *)
(* doubles as on the quotients, so the model compares the quotients; the   *)
(* gap of should_diagnose is the difference of two doubles, rounded, and   *)
(* the model computes it on the doubles.                                   *)
(***************************************************************************)

\* match_percentage > num / den
PctAbove(d, num, den) == d.match_count * den > num * d.total_symptoms

\* match_percentage >= num / den
PctAtLeast(d, num, den) == d.match_count * den >= num * d.total_symptoms

\* The greatest match count of the tables below.
TableCounts == 5

\* The numbers of symptoms of the diseases of the graphs of the model, and
\* the denominators of the thresholds 1/5 and 1/10.
TableTotals == {2, 3, 4, 5, 10, 21, 22}

\* The quotients and gaps of these counts are computed once; others are
\* computed when met.
QuotientTable ==
    [a \in 1..TableCounts |-> [b \in TableTotals |-> TrueDiv(a, b)]]

\* a / b
Quotient(a, b) ==
    IF a \in 1..TableCounts /\ b \in TableTotals
    THEN QuotientTable[a][b] ELSE TrueDiv(a, b)

GapTable ==
    [a \in 1..TableCounts |-> [b \in TableTotals |->
        [c \in 1..TableCounts |-> [d \in TableTotals |->
            FloatSub(QuotientTable[a][b], QuotientTable[c][d])]]]]

\* top_pct - second_pct, with match_percentage = match_count /
\* total_symptoms
Gap(top, second) ==
    IF /\ top.match_count \in 1..TableCounts
       /\ top.total_symptoms \in TableTotals
       /\ second.match_count \in 1..TableCounts
       /\ second.total_symptoms \in TableTotals
    THEN GapTable[top.match_count][top.total_symptoms]
                 [second.match_count][second.total_symptoms]
    ELSE FloatSub(Quotient(top.match_count, top.total_symptoms),
                  Quotient(second.match_count, second.total_symptoms))

\* gap = top_pct - second_pct; gap > num / den
GapAbove(top, second, num, den) ==
    FloatGreater(Gap(top, second), Quotient(num, den))

\* gap > 0.20 or (top_pct > 0.70 and gap > 0.10)
SignificantAdvantage(top, second) ==
    \/ GapAbove(top, second, 1, 5)
    \/ (PctAbove(top, 7, 10) /\ GapAbove(top, second, 1, 10))

\* HighConfidence with the count threshold off by one.
HighConfidence_TwoMatches(top) ==
    top.match_count >= 2 /\ PctAtLeast(top, 3, 5)

\* top.match_count >= 3 and top.match_percentage >= 0.60
HighConfidence(top) == top.match_count >= 3 /\ PctAtLeast(top, 3, 5)

\* should_diagnose after the ranking: <<top>> when it returns the disease
\* dict top, <<>> when it returns None.
StopCheck(diseases) ==
    IF diseases = <<>> THEN <<>>
    ELSE IF Len(diseases) = 1 THEN <<diseases[1]>>
    ELSE IF SignificantAdvantage(diseases[1], diseases[2])
         THEN <<diseases[1]>>
    ELSE IF HighConfidence(diseases[1]) THEN <<diseases[1]>>
    ELSE <<>>

\* should_diagnose
ShouldDiagnose(db, self) ==
    IF Cardinality(self.confirmed_symptoms) < 2 THEN <<>>
    ELSE StopCheck(FindDiseasesBySymptoms(db, self.confirmed_symptoms))

\* parse_response with the two tests in the other order.
ParseResponse_DeniedFirst(user_input) ==
    IF \E word \in {"no", "n", "nope", "not", "never", "absent"} :
           Contains(Strip(Lower(user_input)), word)
    THEN "denied"
    ELSE IF \E word \in {"yes", "y", "yeah", "definitely", "observed"} :
                Contains(Strip(Lower(user_input)), word)
    THEN "confirmed"
    ELSE "new_symptom"

\* parse_response
ParseResponse(user_input) ==
    IF \E word \in {"yes", "y", "yeah", "definitely", "observed"} :
           Contains(Strip(Lower(user_input)), word)
    THEN "confirmed"
    ELSE IF \E word \in {"no", "n", "nope", "not", "never", "absent"} :
                Contains(Strip(Lower(user_input)), word)
    THEN "denied"
    ELSE "new_symptom"

\* format_question after symptom = symptom.strip().lower()
QuestionFor(symptom) ==
    IF \E word \in {"soil", "ground", "environment"} : Contains(symptom, word)
    THEN "Do you observe " \o symptom \o " around the plant?"
    ELSE IF \E word \in {"stress", "condition", "temperature"} :
                Contains(symptom, word)
    THEN "Is the plant showing signs of " \o symptom \o "?"
    ELSE IF Len(symptom) >= 3 /\ SubSeq(symptom, 1, 3) \in {"dry", "wet"}
    THEN "Are there " \o symptom \o " conditions affecting the plant?"
    ELSE "Do you observe " \o symptom \o " on the plant?"

\* format_question
FormatQuestion(symptom) ==
    IF symptom = "" \/ symptom = None
    THEN "Please describe any other symptoms you observe."
    ELSE QuestionFor(Lower(Strip(symptom)))

\* OllamaGemmaConnector.generate_summary: the generated text, or the error
\* text when the request fails; it never raises.
GenerateSummary(llm_ok) ==
    IF llm_ok THEN "summary" ELSE "Error generating summary"

\* Diagnosis with a summary failure that leaves the turn: no assistant
\* entry, no diagnosis returned.
Diagnosis_FailureAborts(self, disease, header, llm_ok) ==
    IF llm_ok
    THEN [self |-> [self EXCEPT !.conversation_history = Append(@, "assistant")],
          response |-> [kind    |-> "diagnosis",
                        disease |-> disease.name,
                        symptom |-> None,
                        text    |-> header \o "summary"]]
    ELSE [self |-> self,
          response |-> [kind    |-> "error",
                        disease |-> None,
                        symptom |-> None,
                        text    |-> "Error generating summary"]]

\* A diagnosis return of process_user_input: the summary is generated, the
\* assistant entry appended, and the framed text returned.  The header is
\* the text that follows the emoji the code puts first.
Diagnosis(self, disease, header, llm_ok) ==
    [self |-> [self EXCEPT !.conversation_history = Append(@, "assistant")],
     response |-> [kind    |-> "diagnosis",
                   disease |-> disease.name,
                   symptom |-> None,
                   text    |-> header \o GenerateSummary(llm_ok)]]

\* AskOrFinish asking the fallback question when no symptom was selected.
AskOrFinish_AsksWithoutSymptom(self, next_symptom, llm_ok) ==
    IF (next_symptom # None /\ next_symptom # "")
          \/ self.possible_diseases = <<>>
    THEN [self |-> [self EXCEPT
                      !.last_asked_symptom = next_symptom,
                      !.asked_symptoms = @ \cup {Lower(next_symptom)},
                      !.conversation_history = Append(@, "assistant")],
          response |-> [kind    |-> "question",
                        disease |-> None,
                        symptom |-> next_symptom,
                        text    |-> FormatQuestion(next_symptom)]]
    ELSE Diagnosis(self, self.possible_diseases[1],
                   "FINAL DIAGNOSIS!\n\n", llm_ok)

\* AskOrFinish without the test that a candidate exists.
AskOrFinish_NoCandidateCheck(self, next_symptom, llm_ok) ==
    IF next_symptom # None /\ next_symptom # ""
    THEN [self |-> [self EXCEPT
                      !.last_asked_symptom = next_symptom,
                      !.asked_symptoms = @ \cup {Lower(next_symptom)},
                      !.conversation_history = Append(@, "assistant")],
          response |-> [kind    |-> "question",
                        disease |-> None,
                        symptom |-> next_symptom,
                        text    |-> FormatQuestion(next_symptom)]]
    ELSE Diagnosis(self,
                   IF self.possible_diseases # <<>>
                   THEN self.possible_diseases[1]
                   ELSE [name |-> "Unknown"],
                   "FINAL DIAGNOSIS!\n\n", llm_ok)

\* AskOrFinish asking without recording the symptom in asked_symptoms.
AskOrFinish_AskedNotRecorded(self, next_symptom, llm_ok) ==
    IF next_symptom # None /\ next_symptom # ""
    THEN [self |-> [self EXCEPT
                      !.last_asked_symptom = next_symptom,
                      !.conversation_history = Append(@, "assistant")],
          response |-> [kind    |-> "question",
                        disease |-> None,
                        symptom |-> next_symptom,
                        text    |-> FormatQuestion(next_symptom)]]
    ELSE IF self.possible_diseases # <<>>
    THEN Diagnosis(self, self.possible_diseases[1],
                   "FINAL DIAGNOSIS!\n\n", llm_ok)
    ELSE [self |-> self,
          response |-> [kind    |-> "prompt",
                        disease |-> None,
                        symptom |-> None,
                        text    |-> "I need more information. Please describe any other symptoms you observe."]]

\* "if next_symptom: ... else: ...", the end of process_user_input.
AskOrFinish(self, next_symptom, llm_ok) ==
    IF next_symptom # None /\ next_symptom # ""
    THEN [self |-> [self EXCEPT
                      !.last_asked_symptom = next_symptom,
                      !.asked_symptoms = @ \cup {Lower(next_symptom)},
                      !.conversation_history = Append(@, "assistant")],
          response |-> [kind    |-> "question",
                        disease |-> None,
                        symptom |-> next_symptom,
                        text    |-> FormatQuestion(next_symptom)]]
    ELSE IF self.possible_diseases # <<>>
    THEN Diagnosis(self, self.possible_diseases[1],
                   "FINAL DIAGNOSIS!\n\n", llm_ok)
    ELSE [self |-> self,
          response |-> [kind    |-> "prompt",
                        disease |-> None,
                        symptom |-> None,
                        text    |-> "I need more information. Please describe any other symptoms you observe."]]

\* The tail of process_user_input, from "Get next symptom to ask about".
AskNext(db, self, llm_ok) ==
    AskOrFinish(self, FindBestDifferentiatingSymptom(db, self), llm_ok)

\* The ranking with the diseases that show a ruled out symptom dropped.
Rerank_DropsRuledOut(db, self) ==
    [self EXCEPT !.possible_diseases =
        SelectSeq(FindDiseasesBySymptoms(db, self.confirmed_symptoms),
                  LAMBDA disease :
                      disease.all_symptoms \cap self.ruled_out_symptoms = {})]

\* self.possible_diseases = self.find_diseases_by_symptoms(confirmed)
Rerank(db, self) ==
    [self EXCEPT !.possible_diseases =
        FindDiseasesBySymptoms(db, self.confirmed_symptoms)]

\* The first interaction after the ranking: "Check for immediate diagnosis".
FirstDecide(db, self, definitive, llm_ok) ==
    IF definitive # <<>>
    THEN Diagnosis(self, definitive[1], "IMMEDIATE DIAGNOSIS!\n\n", llm_ok)
    ELSE AskNext(db, self, llm_ok)

FirstRanked(db, self, llm_ok) ==
    FirstDecide(db, self, ShouldDiagnose(db, self), llm_ok)

\* The first interaction: len(self.conversation_history) == 1.
FirstTurn(db, self, user_input, llm_ok) ==
    FirstRanked(db,
        Rerank(db, [self EXCEPT
                      !.confirmed_symptoms = @ \cup {Lower(user_input)}]),
        llm_ok)

\* if self.last_asked_symptom:
Pending(self) == self.last_asked_symptom # None /\ self.last_asked_symptom # ""

\* UpdateBy with the denied branch adding to confirmed_symptoms.
UpdateBy_DeniedConfirms(self, response_type, user_input) ==
    IF response_type = "confirmed" \/ response_type = "denied"
    THEN IF Pending(self)
         THEN [self EXCEPT !.confirmed_symptoms =
                             @ \cup {Lower(self.last_asked_symptom)}]
         ELSE self
    ELSE [self EXCEPT !.confirmed_symptoms = @ \cup {Lower(user_input)}]

\* The evidence update of a follow-up interaction, by response_type.
UpdateBy(self, response_type, user_input) ==
    IF response_type = "confirmed"
    THEN IF Pending(self)
         THEN [self EXCEPT !.confirmed_symptoms =
                             @ \cup {Lower(self.last_asked_symptom)}]
         ELSE self
    ELSE IF response_type = "denied"
    THEN IF Pending(self)
         THEN [self EXCEPT !.ruled_out_symptoms =
                             @ \cup {Lower(self.last_asked_symptom)}]
         ELSE self
    ELSE [self EXCEPT !.confirmed_symptoms = @ \cup {Lower(user_input)}]

UpdateEvidence(self, user_input) ==
    UpdateBy(self, ParseResponse(user_input), user_input)

\* len(self.confirmed_symptoms) >= 4: the forced diagnosis.
ForceAfter == 4

\* FollowUpDecide without the forced diagnosis.
FollowUpDecide_NeverForced(db, self, definitive, llm_ok) ==
    IF definitive # <<>>
    THEN Diagnosis(self, definitive[1], "DIAGNOSIS COMPLETE!\n\n", llm_ok)
    ELSE AskNext(db, self, llm_ok)

\* A follow-up interaction after the ranking: "Check for diagnosis", then
\* "Check if we have enough symptoms but need to force diagnosis".
FollowUpDecide(db, self, definitive, llm_ok) ==
    IF definitive # <<>>
    THEN Diagnosis(self, definitive[1], "DIAGNOSIS COMPLETE!\n\n", llm_ok)
    ELSE IF /\ Cardinality(self.confirmed_symptoms) >= ForceAfter
            /\ self.possible_diseases # <<>>
    THEN Diagnosis(self, self.possible_diseases[1],
                   "DIAGNOSIS (Analysis Complete)!\n\n", llm_ok)
    ELSE AskNext(db, self, llm_ok)

FollowUpRanked(db, self, llm_ok) ==
    FollowUpDecide(db, self, ShouldDiagnose(db, self), llm_ok)

\* A follow-up interaction.
FollowUpTurn(db, self, user_input, llm_ok) ==
    FollowUpRanked(db, Rerank(db, UpdateEvidence(self, user_input)), llm_ok)

\* process_user_input after the user entry is logged.
Dispatch(db, self, user_input, llm_ok) ==
    IF Len(self.conversation_history) = 1
    THEN FirstTurn(db, self, user_input, llm_ok)
    ELSE FollowUpTurn(db, self, user_input, llm_ok)

\* process_user_input: the engine after the turn and the returned response.
ProcessUserInput(db, self, raw_input, llm_ok) ==
    Dispatch(db, [self EXCEPT !.conversation_history = Append(@, "user")],
             Strip(raw_input), llm_ok)

\* __init__ and reset_conversation: the fresh engine state.
FreshEngine ==
    [conversation_history |-> <<>>,
     confirmed_symptoms   |-> {},
     ruled_out_symptoms   |-> {},
     asked_symptoms       |-> {},
     possible_diseases    |-> <<>>,
     last_asked_symptom   |-> None]

\* reset_conversation with the history kept, clearing the evidence only.
ResetConversation_KeepsHistory(self) ==
    [FreshEngine EXCEPT !.conversation_history = self.conversation_history]

\* reset_conversation: every field of the engine is assigned its initial
\* value.
ResetConversation(self) == FreshEngine

(***************************************************************************)
(* The session as a state machine                                          *)
(***************************************************************************)

\* The greatest number of user turns of one conversation.
MaxTurns == 4

VARIABLES
    db,                    \* the JSONGraphConnector's graph_data
    conversation_history,  \* the roles of the logged entries
    confirmed_symptoms,
    ruled_out_symptoms,
    asked_symptoms,
    possible_diseases,
    last_asked_symptom,
    last_input,            \* the argument of the last process_user_input
    last_response,         \* what the last call returned
    indices,               \* the JSONGraphConnector's defaultdict indices
    peer,                  \* a second engine object over the same connector
    store_reply            \* what the last call outside a turn returned

vars == <<db, conversation_history, confirmed_symptoms, ruled_out_symptoms,
          asked_symptoms, possible_diseases, last_asked_symptom,
          last_input, last_response, indices, peer, store_reply>>

\* self.db of both engines: the one connector, with the indices as they are.
json_connector == Connector(db, indices)

\* The engine object.
Self ==
    [conversation_history |-> conversation_history,
     confirmed_symptoms   |-> confirmed_symptoms,
     ruled_out_symptoms   |-> ruled_out_symptoms,
     asked_symptoms       |-> asked_symptoms,
     possible_diseases    |-> possible_diseases,
     last_asked_symptom   |-> last_asked_symptom]

SetSelf(self) ==
    /\ conversation_history' = self.conversation_history
    /\ confirmed_symptoms'   = self.confirmed_symptoms
    /\ ruled_out_symptoms'   = self.ruled_out_symptoms
    /\ asked_symptoms'       = self.asked_symptoms
    /\ possible_diseases'    = self.possible_diseases
    /\ last_asked_symptom'   = self.last_asked_symptom

NoResponse(kind) ==
    [kind |-> kind, disease |-> None, symptom |-> None, text |-> ""]

\* The user entries of the history: the turns taken since the last reset.
UserTurns ==
    Len(SelectSeq(conversation_history, LAMBDA role : role = "user"))

\* The connector and the engines after construction.  The peer is a second
\* PlantDiseaseDignosticSystemGraphDirect(json_connector, llm) built over
\* the connector of the first: its fields, and the argument and the result
\* of its last call.
Constructed ==
    /\ indices = BuildIndices(db)
    /\ peer = [self |-> FreshEngine, last_input |-> "",
               last_response |-> NoResponse("none")]
    /\ store_reply = [op |-> "none", value |-> <<>>]
    /\ conversation_history = <<>>
    /\ confirmed_symptoms = {}
    /\ ruled_out_symptoms = {}
    /\ asked_symptoms = {}
    /\ possible_diseases = <<>>
    /\ last_asked_symptom = None
    /\ last_input = ""
    /\ last_response = NoResponse("none")

Init == db \in Graphs /\ Constructed

\* process_user_input(user_input), the text generator answering or failing.
Process ==
    /\ UserTurns < MaxTurns
    /\ \E user_input \in UserInputs(db), llm_ok \in BOOLEAN :
         \E result \in {ProcessUserInput(json_connector, Self,
                                          user_input, llm_ok)} :
             /\ SetSelf(result.self)
             /\ last_input' = user_input
             /\ last_response' = result.response
    /\ UNCHANGED <<db, indices, peer, store_reply>>

\* reset_conversation()
Reset ==
    /\ SetSelf(ResetConversation(Self))
    /\ last_response' = NoResponse("reset")
    /\ UNCHANGED <<db, last_input, indices, peer, store_reply>>

Next == Process \/ Reset

Spec == Init /\ [][Next]_vars

(***************************************************************************)
(* The sessions above, and a session over the script graph whose user      *)
(* types the symptoms of the script one by one: the session that brings    *)
(* the stop check to the match percentages 11/20 and 7/20, whose           *)
(* difference as doubles is above the double 0.20.                         *)
(***************************************************************************)

\* The script of the user of the script graph: the symptoms of the first
\* disease in file order, the 7 it shares with the second first, one
\* symptom a turn.  The symptom the user types next is the first one that
\* is not confirmed yet.
NextOfScript(confirmed) ==
    {Flecks[i] : i \in {j \in 1..20 :
                           /\ Flecks[j] \notin confirmed
                           /\ \A k \in 1..(j - 1) : Flecks[k] \in confirmed}}

\* process_user_input(user_input) on the next symptom of the script.
ScriptTurn ==
    /\ db = ScriptGraph
    /\ \E user_input \in NextOfScript(confirmed_symptoms), llm_ok \in BOOLEAN :
         \E result \in {ProcessUserInput(json_connector, Self,
                                          user_input, llm_ok)} :
             /\ SetSelf(result.self)
             /\ last_input' = user_input
             /\ last_response' = result.response
    /\ UNCHANGED <<db, indices, peer, store_reply>>

ScriptNext == Process \/ Reset \/ ScriptTurn

ScriptInit == db \in Graphs \cup {ScriptGraph} /\ Constructed

ScriptSpec == ScriptInit /\ [][ScriptNext]_vars

(***************************************************************************)
(* Two sessions over one connector: the engine of the variables above and  *)
(* the peer, their calls interleaved in any order with the calls that are  *)
(* made outside a turn.                                                    *)
(***************************************************************************)

SharedTurns == 2

\* What the users of the two sessions type.
SharedInputs(graph) ==
    UserInputs(graph) \cap {"yellowing leaves", "no", "Leaf Curl!", "Yes "}

PeerTurns ==
    Len(SelectSeq(peer.self.conversation_history, LAMBDA role : role = "user"))

\* get_diagnostic_summary: it ranks again and changes no field.
GetDiagnosticSummary(graph, self, llm_ok) ==
    IF self.confirmed_symptoms = {}
    THEN "No symptoms confirmed yet. Please describe what you observe on the plant."
    ELSE IF FindDiseasesBySymptoms(graph, self.confirmed_symptoms) # <<>>
    THEN GenerateSummary(llm_ok)
    ELSE "No matching diseases found in graph for the confirmed symptoms."

SharedInit == Init /\ db \in {SampleGraph, TieGraph}

\* process_user_input of the first session.
SessionTurn ==
    /\ UserTurns < SharedTurns
    /\ \E user_input \in SharedInputs(db), llm_ok \in BOOLEAN :
         \E result \in {ProcessUserInput(json_connector, Self,
                                          user_input, llm_ok)} :
             /\ SetSelf(result.self)
             /\ last_input' = user_input
             /\ last_response' = result.response
    /\ UNCHANGED <<db, indices, peer, store_reply>>

\* process_user_input of the peer.
PeerTurn ==
    /\ PeerTurns < SharedTurns
    /\ \E user_input \in SharedInputs(db), llm_ok \in BOOLEAN :
         \E result \in {ProcessUserInput(json_connector, peer.self,
                                          user_input, llm_ok)} :
             peer' = [self |-> result.self, last_input |-> user_input,
                      last_response |-> result.response]
    /\ UNCHANGED <<db, conversation_history, confirmed_symptoms,
                   ruled_out_symptoms, asked_symptoms, possible_diseases,
                   last_asked_symptom, last_input, last_response, indices,
                   store_reply>>

\* reset_conversation of the peer.
PeerReset ==
    /\ peer' = [self |-> ResetConversation(peer.self),
                last_input |-> peer.last_input,
                last_response |-> NoResponse("reset")]
    /\ UNCHANGED <<db, conversation_history, confirmed_symptoms,
                   ruled_out_symptoms, asked_symptoms, possible_diseases,
                   last_asked_symptom, last_input, last_response, indices,
                   store_reply>>

\* initialize() of either engine: self.schema = self.db.get_schema()
Initialize ==
    /\ \E node_types \in ListsOfSet(SchemaLabels(json_connector)) :
          \E result \in {GetSchema(json_connector, indices, node_types)} :
             /\ indices' = result.indices
             /\ store_reply' = [op |-> "schema", value |-> result.schema]
    /\ UNCHANGED <<db, conversation_history, confirmed_symptoms,
                   ruled_out_symptoms, asked_symptoms, possible_diseases,
                   last_asked_symptom, last_input, last_response, peer>>

\* get_solution_for_disease for the top candidate of the first session.
Solutions ==
    /\ possible_diseases # <<>>
    /\ store_reply' =
          [op |-> "solutions",
           value |-> GetSolutionsForDisease(json_connector,
                                            possible_diseases[1].name)]
    /\ UNCHANGED <<db, conversation_history, confirmed_symptoms,
                   ruled_out_symptoms, asked_symptoms, possible_diseases,
                   last_asked_symptom, last_input, last_response, indices,
                   peer>>

\* get_diagnostic_summary of the peer.
Summary ==
    /\ \E llm_ok \in BOOLEAN :
          store_reply' =
              [op |-> "summary",
               value |-> GetDiagnosticSummary(json_connector, peer.self,
                                              llm_ok)]
    /\ UNCHANGED <<db, conversation_history, confirmed_symptoms,
                   ruled_out_symptoms, asked_symptoms, possible_diseases,
                   last_asked_symptom, last_input, last_response, indices,
                   peer>>

SharedNext ==
    \/ SessionTurn
    \/ PeerTurn
    \/ PeerReset
    \/ Initialize
    \/ Solutions
    \/ Summary

SharedSpec == SharedInit /\ [][SharedNext]_vars

(***************************************************************************)
(* Properties of the session                                               *)
(***************************************************************************)

\* A step that is a call of process_user_input: the call logs the user's
\* entry, so the history grows; reset_conversation never makes it grow.
ProcessStep == Len(conversation_history') > Len(conversation_history)

\* The state is the one a call of process_user_input has just left.
AfterTurn == last_response.kind \in {"diagnosis", "question", "prompt"}

\* text starts with header.
StartsWith(text, header) ==
    /\ Len(text) >= Len(header)
    /\ SubSeq(text, 1, Len(header)) = header

\* The text of the last response starts with header.
HasHeader(header) == StartsWith(last_response.text, header)

\* C1: once a turn has returned a diagnosis, the next turn of the session
\* (no reset in between) leaves confirmed, ruled out, asked and the last
\* asked symptom unchanged and returns neither a question nor a diagnosis.
C1_DiagnosedIsTerminal ==
    [][(last_response.kind = "diagnosis" /\ ProcessStep) =>
          /\ confirmed_symptoms' = confirmed_symptoms
          /\ ruled_out_symptoms' = ruled_out_symptoms
          /\ asked_symptoms' = asked_symptoms
          /\ last_asked_symptom' = last_asked_symptom
          /\ last_response'.kind \notin {"question", "diagnosis"}]_vars

\* C2: every candidate of the ranking has match_count <= total_symptoms,
\* that is a match_percentage between 0 and 1.
C2_MatchCountWithinTotal ==
    \A i \in 1..Len(possible_diseases) :
        /\ possible_diseases[i].match_count >= 0
        /\ possible_diseases[i].match_count
              <= possible_diseases[i].total_symptoms

\* C3: a turn whose re-ranking yields exactly one candidate returns a
\* diagnosis of that candidate, never a question; the first turn
\* 'brown spots' on the sample graph returns the diagnosis of Bacterial
\* Leaf Spot.
C3_SingleCandidateDiagnosed ==
    /\ (AfterTurn /\ Len(possible_diseases) = 1) =>
          /\ last_response.kind = "diagnosis"
          /\ last_response.disease = possible_diseases[1].name
    /\ (/\ db = SampleGraph
        /\ UserTurns = 1
        /\ AfterTurn
        /\ last_input = "brown spots") =>
          /\ last_response.kind = "diagnosis"
          /\ last_response.disease = "Bacterial Leaf Spot"

\* A first turn 'brown spots' on the sample graph has just been answered.
C3_Witness ==
    /\ db = SampleGraph
    /\ conversation_history = <<"user", "assistant">>
    /\ confirmed_symptoms = {"brown spots"}
    /\ Len(possible_diseases) = 1
    /\ last_response.kind = "diagnosis"

\* The ranking's first and second candidate.
TopCandidate == possible_diseases[1]

SecondCandidate == possible_diseases[2]

\* match_percentage: the double match_count / total_symptoms.
MatchPercentage(disease) ==
    TrueDiv(disease.match_count, disease.total_symptoms)

\* gap = top.match_percentage - second.match_percentage, a difference of
\* doubles; gap > num / den, the literal being the double nearest to it.
GapOver(num, den) ==
    FloatGreater(FloatSub(MatchPercentage(TopCandidate),
                          MatchPercentage(SecondCandidate)),
                 TrueDiv(num, den))

\* The four alternatives of the stop check, as the claim words them, on
\* doubles throughout.
OnlyCandidate == Len(possible_diseases) = 1

GapOverFifth == Len(possible_diseases) >= 2 /\ GapOver(1, 5)

HighTopAndGapOverTenth ==
    /\ Len(possible_diseases) >= 2
    /\ FloatGreater(MatchPercentage(TopCandidate), TrueDiv(7, 10))
    /\ GapOver(1, 10)

ThreeMatchesAndSixtyPercent ==
    /\ TopCandidate.match_count >= 3
    /\ ~FloatGreater(TrueDiv(3, 5), MatchPercentage(TopCandidate))

\* The gap of the quotients themselves: top - second > num / den.
ExactGapOver(num, den) ==
    (TopCandidate.match_count * SecondCandidate.total_symptoms
        - SecondCandidate.match_count * TopCandidate.total_symptoms) * den
      > num * TopCandidate.total_symptoms * SecondCandidate.total_symptoms

StopCondition ==
    /\ Cardinality(confirmed_symptoms) >= 2
    /\ possible_diseases # <<>>
    /\ \/ OnlyCandidate
       \/ GapOverFifth
       \/ HighTopAndGapOverTenth
       \/ ThreeMatchesAndSixtyPercent

\* The last response is the diagnosis that follows a stop check that
\* returned a disease.
StoppedByCheck ==
    /\ last_response.kind = "diagnosis"
    /\ (HasHeader("IMMEDIATE DIAGNOSIS!") \/ HasHeader("DIAGNOSIS COMPLETE!"))

\* C4: the stop check returns the top candidate exactly when at least 2
\* symptoms are confirmed, the ranking is not empty and one of the four
\* alternatives holds (one candidate; gap > 0.20; top > 0.70 and gap > 0.10;
\* at least 3 matches and top >= 0.60); otherwise it returns no disease.
\* The turn answers with the check's diagnosis in exactly those cases.
C4_StopCheckExactly ==
    /\ ShouldDiagnose(json_connector, Self) =
          IF StopCondition THEN <<TopCandidate>> ELSE <<>>
    /\ AfterTurn =>
          /\ StoppedByCheck <=> StopCondition
          /\ StoppedByCheck => last_response.disease = TopCandidate.name

\* The check has stopped on the top of two candidates by the gap alone,
\* on the match percentages 11/20 and 7/20: as doubles they are more than
\* 0.20 apart, as quotients exactly one fifth.
C4_Witness ==
    /\ StoppedByCheck
    /\ StopCondition
    /\ Len(possible_diseases) = 2
    /\ TopCandidate.match_count = 11 /\ TopCandidate.total_symptoms = 20
    /\ SecondCandidate.match_count = 7 /\ SecondCandidate.total_symptoms = 20
    /\ GapOverFifth
    /\ ~ExactGapOver(1, 5)
    /\ ~HighTopAndGapOverTenth
    /\ ~ThreeMatchesAndSixtyPercent

\* C5: after the update of a turn, at least 4 confirmed symptoms and at
\* least one candidate make the turn return a diagnosis of the top
\* candidate; no question is returned while 4 or more are confirmed.
C5_ForcedAtFourConfirmed ==
    AfterTurn =>
       /\ (Cardinality(confirmed_symptoms) >= 4 /\ possible_diseases # <<>>) =>
             /\ last_response.kind = "diagnosis"
             /\ last_response.disease = TopCandidate.name
       /\ last_response.kind = "question" =>
             Cardinality(confirmed_symptoms) < 4

\* A diagnosis was forced on 4 confirmed symptoms that satisfy none of the
\* alternatives of the stop check.
C5_Witness ==
    /\ Cardinality(confirmed_symptoms) >= 4
    /\ Len(possible_diseases) >= 2
    /\ ~StopCondition
    /\ last_response.kind = "diagnosis"
    /\ HasHeader("DIAGNOSIS (Analysis Complete)!")

\* matches(a, b) of two symptom texts: the matcher on the normalised texts.
FuzzyMatch(a, b) == Matches(CleanLower(a), CleanLower(b))

\* The symptoms of the diseases handed to the selector.
SymptomsOfCandidates(diseases) ==
    UNION {diseases[i].all_symptoms : i \in 1..Len(diseases)}

\* C6: the symptom of a question fuzzily matches no symptom that was
\* confirmed, ruled out or asked when it was selected; so it was not
\* asked before and is neither confirmed nor ruled out.
C6_QuestionNotExcluded ==
    [][(ProcessStep /\ last_response'.kind = "question") =>
          /\ \A e \in confirmed_symptoms' \cup ruled_out_symptoms'
                        \cup asked_symptoms :
                ~FuzzyMatch(last_response'.symptom, e)
          /\ Lower(last_response'.symptom) \notin
                confirmed_symptoms' \cup ruled_out_symptoms'
                    \cup asked_symptoms]_vars

\* A question was asked after an earlier one was denied, while a symptom
\* of the candidates that is in none of the three sets was passed over
\* because it fuzzily matches a confirmed one.
C6_Witness ==
    /\ last_response.kind = "question"
    /\ ruled_out_symptoms # {}
    /\ Cardinality(asked_symptoms) >= 2
    /\ \E c \in SymptomsOfCandidates(possible_diseases) :
          /\ c \notin confirmed_symptoms \cup ruled_out_symptoms
                          \cup asked_symptoms
          /\ \E e \in confirmed_symptoms : FuzzyMatch(c, e)

\* The places in the list of candidates passed in that exhibit symptom.
ExhibitedBy(diseases, symptom) ==
    {i \in 1..Len(diseases) : symptom \in diseases[i].all_symptoms}

\* The at most 5 top candidates passed to the selector.
TopFive(diseases) == SubSeq(diseases, 1, Min(5, Len(diseases)))

\* C7: the symptom of a question is exhibited by at least one and by fewer
\* than all of the top candidates passed in; with one candidate passed in
\* there is no question.
C7_QuestionDiscriminates ==
    /\ last_response.kind = "question" =>
          /\ ExhibitedBy(TopFive(possible_diseases),
                         last_response.symptom) # {}
          /\ Cardinality(ExhibitedBy(TopFive(possible_diseases),
                                     last_response.symptom))
                < Len(TopFive(possible_diseases))
    /\ (AfterTurn /\ Len(possible_diseases) = 1) =>
          last_response.kind # "question"

\* A question on a symptom that two of three candidates exhibit.
C7_Witness ==
    /\ last_response.kind = "question"
    /\ Len(possible_diseases) >= 3
    /\ Cardinality(ExhibitedBy(TopFive(possible_diseases),
                               last_response.symptom)) >= 2

\* The symptoms of the candidates passed in that match nothing excluded.
CandidateSymptoms(diseases, excluded) ==
    {c \in SymptomsOfCandidates(diseases) :
        \A e \in excluded : ~FuzzyMatch(c, e)}

\* min(with, without) + 0.1 * with in tenths, 0 when with or without is 0,
\* of a symptom over the candidates passed in.
FullScore(diseases, symptom) ==
    IF \/ ExhibitedBy(diseases, symptom) = {}
       \/ Cardinality(ExhibitedBy(diseases, symptom)) = Len(diseases)
    THEN 0
    ELSE 10 * Min(Cardinality(ExhibitedBy(diseases, symptom)),
                  Len(diseases) - Cardinality(ExhibitedBy(diseases, symptom)))
           + Cardinality(ExhibitedBy(diseases, symptom))

\* C8: the selector returns a symptom whose score is the greatest among all
\* the non-excluded symptoms of the top candidates, and returns none (the
\* turn then ends in the final diagnosis or in the request for more
\* symptoms) only when none of them scores above 0, however many symptoms
\* the candidates have.
C8_SelectsGreatestScore ==
    [][ProcessStep =>
          /\ last_response'.kind = "question" =>
                \A c \in CandidateSymptoms(
                            TopFive(possible_diseases'),
                            confirmed_symptoms' \cup ruled_out_symptoms'
                                \cup asked_symptoms) :
                    FullScore(TopFive(possible_diseases'), c)
                      <= FullScore(TopFive(possible_diseases'),
                                   last_response'.symptom)
          /\ (\/ last_response'.kind = "prompt"
              \/ StartsWith(last_response'.text, "FINAL DIAGNOSIS!")) =>
                \A c \in CandidateSymptoms(
                            TopFive(possible_diseases'),
                            confirmed_symptoms' \cup ruled_out_symptoms'
                                \cup asked_symptoms) :
                    FullScore(TopFive(possible_diseases'), c) = 0]_vars

\* The letters of a text.
Letters(text) == {CharAt(text, i) : i \in 1..Len(text)}

\* The class of a reply as the claim gives it.  Of the confirming words
\* all but 'observed' contain the letter y, which is one of them; every
\* denying word contains the letter n, which is one of them.
ReplyClass(reply) ==
    IF "y" \in Letters(Lower(Strip(reply)))
         \/ Contains(Lower(Strip(reply)), "observed")
    THEN "confirmed"
    ELSE IF "n" \in Letters(Lower(Strip(reply)))
    THEN "denied"
    ELSE "new_symptom"

\* A step that is a follow-up turn: the history is not empty before it.
FollowUpStep == ProcessStep /\ conversation_history # <<>>

\* C9: a follow-up reply is classified on its lower-cased, trimmed text:
\* confirmed if it contains one of yes, y, yeah, definitely, observed;
\* otherwise denied if it contains one of no, n, nope, not, never, absent;
\* otherwise a new symptom.  The turn treats the reply by that class.
C9_ReplyClassified ==
    [][FollowUpStep =>
          /\ ParseResponse(Strip(last_input')) = ReplyClass(last_input')
          /\ (ReplyClass(last_input') = "confirmed"
                /\ last_asked_symptom # None) =>
                Lower(last_asked_symptom) \in confirmed_symptoms'
          /\ (ReplyClass(last_input') = "denied"
                /\ last_asked_symptom # None) =>
                Lower(last_asked_symptom) \in ruled_out_symptoms'
          /\ ReplyClass(last_input') = "new_symptom" =>
                Lower(Strip(last_input')) \in confirmed_symptoms']_vars

\* A reply with both the letter y and the letter n confirmed the question.
C9_Witness ==
    /\ UserTurns = 2
    /\ last_input = "yellowing leaves"
    /\ "n" \in Letters(last_input)
    /\ last_asked_symptom = "stunted growth"
    /\ confirmed_symptoms = {"yellowing leaves", "stunted growth"}

\* C10: on a follow-up turn a confirmed reply adds only the last asked
\* symptom to confirmed, a denied reply adds only it to ruled out, a new
\* symptom adds only the input to confirmed, each leaving the other set
\* unchanged; with no symptom asked, a confirmed or denied reply changes
\* neither set.
C10_EvidenceFrame ==
    [][FollowUpStep =>
          /\ (ParseResponse(Strip(last_input')) = "confirmed"
                /\ last_asked_symptom # None) =>
                /\ confirmed_symptoms' =
                      confirmed_symptoms \cup {Lower(last_asked_symptom)}
                /\ ruled_out_symptoms' = ruled_out_symptoms
          /\ (ParseResponse(Strip(last_input')) = "denied"
                /\ last_asked_symptom # None) =>
                /\ ruled_out_symptoms' =
                      ruled_out_symptoms \cup {Lower(last_asked_symptom)}
                /\ confirmed_symptoms' = confirmed_symptoms
          /\ ParseResponse(Strip(last_input')) = "new_symptom" =>
                /\ confirmed_symptoms' =
                      confirmed_symptoms \cup {Lower(Strip(last_input'))}
                /\ ruled_out_symptoms' = ruled_out_symptoms
          /\ (ParseResponse(Strip(last_input')) # "new_symptom"
                /\ last_asked_symptom = None) =>
                /\ confirmed_symptoms' = confirmed_symptoms
                /\ ruled_out_symptoms' = ruled_out_symptoms]_vars

\* A denied reply has put the asked symptom into ruled out and left
\* confirmed at the first symptom.
C10_Witness ==
    /\ UserTurns = 2
    /\ ParseResponse(Strip(last_input)) = "denied"
    /\ Cardinality(ruled_out_symptoms) = 1
    /\ Cardinality(confirmed_symptoms) = 1
    /\ ruled_out_symptoms \subseteq asked_symptoms

\* The turn before this one ended in a follow-up question.
QuestionPending == last_response.kind = "question"

\* C11: a confirmed or denied reply changes confirmed or ruled out only
\* when the preceding response of the session was a follow-up question,
\* and then only by that question's symptom; after a diagnosis or after
\* the more-symptoms prompt a yes/no reply adds nothing to either set.
C11_YesNoNeedsPendingQuestion ==
    [][(FollowUpStep /\ ParseResponse(Strip(last_input')) # "new_symptom") =>
          /\ QuestionPending =>
                /\ confirmed_symptoms' \subseteq
                      confirmed_symptoms \cup {Lower(last_response.symptom)}
                /\ ruled_out_symptoms' \subseteq
                      ruled_out_symptoms \cup {Lower(last_response.symptom)}
          /\ ~QuestionPending =>
                /\ confirmed_symptoms' = confirmed_symptoms
                /\ ruled_out_symptoms' = ruled_out_symptoms]_vars

\* C12: every element of confirmed is stored in normalized form: trimmed
\* of surrounding whitespace and punctuation, whitespace runs collapsed,
\* lower case, so that inputs differing only in case, punctuation or
\* spacing are one element of confirmed.
C12_ConfirmedNormalized ==
    \A symptom \in confirmed_symptoms : CleanLower(symptom) = symptom

MoreSymptomsPrompt ==
    "I need more information. Please describe any other symptoms you observe."

\* C13: a turn that ends with no candidate disease returns the prompt for
\* more symptoms: it emits no diagnosis and no question, and it leaves
\* asked and the last asked symptom as they were before the turn.
C13_NoCandidatesPrompt ==
    [][(ProcessStep /\ possible_diseases' = <<>>) =>
          /\ last_response'.kind = "prompt"
          /\ last_response'.text = MoreSymptomsPrompt
          /\ last_response'.disease = None
          /\ asked_symptoms' = asked_symptoms
          /\ last_asked_symptom' = last_asked_symptom]_vars

\* A second turn in a row has ended without a candidate, on a graph that
\* has diseases.
C13_Witness ==
    /\ last_response.kind = "prompt"
    /\ possible_diseases = <<>>
    /\ DiseaseNodes(json_connector) # <<>>
    /\ Cardinality(confirmed_symptoms) >= 2

SummaryError == "Error generating summary"

EndsWith(text, suffix) ==
    /\ Len(text) >= Len(suffix)
    /\ SubSeq(text, Len(text) - Len(suffix) + 1, Len(text)) = suffix

\* The text before the summary of a diagnosis response.
HeaderOf(text, summary) == SubSeq(text, 1, Len(text) - Len(summary))

\* The outcome of a turn whose summary request failed, against the outcome
\* of the same turn with a summary: the same engine state and the same kind
\* of response, and a diagnosis that carries the error text under the same
\* header for the same disease.
SameTurnOnFailure(generated, failed) ==
    /\ failed.self = generated.self
    /\ failed.response.kind = generated.response.kind
    /\ failed.response.disease = generated.response.disease
    /\ generated.response.kind # "diagnosis" =>
          failed.response = generated.response
    /\ generated.response.kind = "diagnosis" =>
          /\ EndsWith(generated.response.text, "summary")
          /\ ~EndsWith(generated.response.text, SummaryError)
          /\ EndsWith(failed.response.text, SummaryError)
          /\ HeaderOf(failed.response.text, SummaryError) =
                HeaderOf(generated.response.text, "summary")

\* C14: a failing summary request does not leave the turn: a diagnosing
\* turn returns the diagnosis with the error text in place of the summary,
\* and confirmed, ruled out, asked, the last asked symptom, the candidates
\* and the history end the turn as they do when the summary is generated.
\* The turn taken is set against the same turn with the other outcome of
\* the summary request.
C14_SummaryFailureIsData ==
    [][ProcessStep =>
          \E failed_now \in {/\ last_response'.kind = "diagnosis"
                              /\ EndsWith(last_response'.text, SummaryError)} :
          \E turn \in {[self |-> Self', response |-> last_response']},
             other \in {ProcessUserInput(json_connector, Self,
                                         last_input', failed_now)} :
              IF failed_now
              THEN SameTurnOnFailure(other, turn)
              ELSE SameTurnOnFailure(turn, other)]_vars

\* A follow-up turn has returned a diagnosis whose text is the error text,
\* and the evidence of the turn is in the state.
C14_Witness ==
    /\ last_response.kind = "diagnosis"
    /\ EndsWith(last_response.text, SummaryError)
    /\ UserTurns >= 2
    /\ Lower(last_asked_symptom) \in confirmed_symptoms
    /\ possible_diseases # <<>>
    /\ conversation_history[Len(conversation_history)] = "assistant"

\* The engine state of a new session.
IsFresh(self) ==
    /\ self.conversation_history = <<>>
    /\ self.confirmed_symptoms = {}
    /\ self.ruled_out_symptoms = {}
    /\ self.asked_symptoms = {}
    /\ self.possible_diseases = <<>>
    /\ self.last_asked_symptom = None

\* C15: after a reset, from any state, the session state is the initial
\* state: confirmed, ruled out, asked and the candidates empty, no symptom
\* asked, no turn counted; the turn that follows is a first turn, and its
\* input is confirmed as a symptom even when it reads like yes or no.
C15_ResetIsFresh ==
    [][/\ last_response'.kind = "reset" =>
            /\ conversation_history' = <<>>
            /\ confirmed_symptoms' = {}
            /\ ruled_out_symptoms' = {}
            /\ asked_symptoms' = {}
            /\ possible_diseases' = <<>>
            /\ last_asked_symptom' = None
       /\ (last_response.kind = "reset" /\ ProcessStep) =>
            /\ IsFresh(Self)
            /\ conversation_history'[1] = "user"
            /\ Len(conversation_history') \in {1, 2}
            /\ confirmed_symptoms' = {Lower(Strip(last_input'))}
            /\ ruled_out_symptoms' = {}
            /\ possible_diseases' =
                  FindDiseasesBySymptoms(json_connector,
                                         {Lower(Strip(last_input'))})]_vars

\* A session that had taken turns was reset: the input of its last turn is
\* still known, and the engine state is the initial one.
C15_Witness ==
    /\ last_response.kind = "reset"
    /\ last_input # ""
    /\ IsFresh(Self)

\* Strings that meet each rule of the matcher from both sides: equal up to
\* case and blanks, with letters beyond ASCII and a capital sigma at the end
\* of a word among them, one inside the other, word sets with and without
\* stop words, a keyword on one side and a synonym on the other.
MatcherProbes ==
    {"", " ", "Leaf Curl", "leaf curl ", "leaves", "yellowing leaves",
     "Éclat", "éclat rouge", "ΟΔΟΣ", "οδος", "οδοσ",
     "the", "on the", "spots on the leaf", "leaf spots brown",
     "brown marks", "marks of brown rust", "rust marks",
     "yellow", "chlorosis", "iron chlorosis", "dwarf plant",
     "stunted growth", "wilt", "drooping stem", "dried tips", "dry soil",
     "lesions", "brown spots", "necrosis", "rot", "decay at base"}

ProbeMatches ==
    [a \in MatcherProbes |-> {b \in MatcherProbes : SymptomsMatch(a, b)}]

\* The pairs of different texts that match, on the probes.
ProbePairs ==
    {<<a, b>> \in MatcherProbes \X MatcherProbes :
        b \in ProbeMatches[a] /\ Strip(Lower(a)) # Strip(Lower(b))}

\* C17: the matcher is symmetric: a matches b exactly when b matches a,
\* by whichever of the four rules (equality, substring, word overlap above
\* one half without stop words, keyword and synonym).
C17_MatcherSymmetric ==
    /\ \A a \in MatcherProbes : \A b \in ProbeMatches[a] : a \in ProbeMatches[b]
    /\ \A a \in Texts : \A b \in MatchTable[a] : a \in MatchTable[b]
    /\ \A symptom \in confirmed_symptoms \cup ruled_out_symptoms :
          \A i \in 1..Len(possible_diseases) :
              \A other \in possible_diseases[i].all_symptoms :
                  Matches(symptom, other) = Matches(other, symptom)

\* The ranking has matched a confirmed symptom with a disease symptom that
\* is another text, and the probes match by the keyword rule, by the word
\* overlap and by substring without matching by equality; a capital beyond
\* ASCII matches its lower-case letter, and a capital sigma at the end of a
\* word the final sigma alone.
C17_Witness ==
    /\ \E symptom \in confirmed_symptoms :
          \E i \in 1..Len(possible_diseases) :
              \E other \in possible_diseases[i].all_symptoms :
                  /\ LowerStrip(other) # symptom
                  /\ Matches(symptom, other)
    /\ <<"yellow", "chlorosis">> \in ProbePairs
    /\ <<"rust marks", "marks of brown rust">> \in ProbePairs
    /\ <<"leaves", "yellowing leaves">> \in ProbePairs
    /\ <<"the", "dry soil">> \notin ProbePairs
    /\ <<"Éclat", "éclat rouge">> \in ProbePairs
    /\ "οδος" \in ProbeMatches["ΟΔΟΣ"]
    /\ "οδοσ" \notin ProbeMatches["ΟΔΟΣ"]

\* x comes before y in the lexicographic order of the pairs
\* (match_percentage, match_count).
PairLess(x, y) ==
    \/ x.match_count * y.total_symptoms < y.match_count * x.total_symptoms
    \/ /\ x.match_count * y.total_symptoms = y.match_count * x.total_symptoms
       /\ x.match_count < y.match_count

\* The results of the diseases of the graph of which a symptom matches one
\* of the given symptoms.
MatchingDiseases(graph, symptoms) ==
    {DiseaseResult(graph, DiseaseNodes(graph)[i], symptoms) :
        i \in {j \in 1..Len(DiseaseNodes(graph)) :
                  \E symptom \in symptoms :
                      \E other \in DiseaseSymptoms(graph, DiseaseNodes(graph)[j]) :
                          FuzzyMatch(symptom, other)}}

RankedWell(ranked, matching) ==
    /\ \A i, j \in 1..Len(ranked) : i < j => ~PairLess(ranked[i], ranked[j])
    /\ Len(ranked) <= 10
    /\ \A i \in 1..Len(ranked) :
          ranked[i].match_count > 0 /\ ranked[i] \in matching
    /\ matching # {} =>
          /\ ranked # <<>>
          /\ \A other \in matching : ~PairLess(ranked[1], other)
    /\ Len(ranked) = Min(10, Cardinality(matching))

\* C18: the ranking of the confirmed symptoms is sorted non-increasing by
\* the pair (match_percentage, match_count), holds at most 10 candidates
\* and no disease without a matched symptom; its first element is greatest
\* in that order among all matching diseases, and it is the disease a
\* diagnosis names.
C18_RankSortedAndCut ==
    AfterTurn =>
        \E ranked \in {ConnectorFindDiseases(json_connector, confirmed_symptoms)},
           matching \in {MatchingDiseases(json_connector, confirmed_symptoms)} :
            /\ RankedWell(ranked, matching)
            /\ possible_diseases = Take(ranked, 8)
            /\ last_response.kind = "diagnosis" =>
                  last_response.disease = ranked[1].name

\* Twelve diseases match, ten are ranked, and two neighbours of the ranking
\* have the same percentage at different match counts.
C18_Witness ==
    /\ AfterTurn
    /\ Cardinality(MatchingDiseases(json_connector, confirmed_symptoms)) = 12
    /\ Len(ConnectorFindDiseases(json_connector, confirmed_symptoms)) = 10
    /\ Len(possible_diseases) = 8
    /\ \E i \in 1..7 :
          /\ possible_diseases[i].match_count * possible_diseases[i + 1].total_symptoms
                = possible_diseases[i + 1].match_count * possible_diseases[i].total_symptoms
          /\ possible_diseases[i].match_count > possible_diseases[i + 1].match_count

\* Disease lists a caller may hand to the selector.
SomeDiseaseLists ==
    {<<>>, <<"Iron Chlorosis">>, <<"Iron Chlorosis", "Powdery Mildew">>,
     <<"Rust 01", "Rust 02", "Rust 03">>}

\* C19: on the graph without nodes and relationships the ranking is empty
\* for every symptom set and the selector returns none for every disease
\* list; every turn of a session over it returns the prompt for more
\* symptoms, never a diagnosis or a question.
C19_EmptyGraphDegrades ==
    db = EmptyGraph =>
        /\ possible_diseases = <<>>
        /\ asked_symptoms = {}
        /\ last_asked_symptom = None
        /\ ConnectorFindDiseases(json_connector, confirmed_symptoms) = <<>>
        /\ ConnectorFindDiseases(json_connector,
                                 confirmed_symptoms \cup {"rust"}) = <<>>
        /\ \A disease_names \in SomeDiseaseLists :
              /\ FindDifferentiatingSymptoms(json_connector, disease_names,
                                             confirmed_symptoms) = <<>>
              /\ Select(json_connector, disease_names, confirmed_symptoms) = None
        /\ AfterTurn =>
              /\ last_response.kind = "prompt"
              /\ last_response.text = MoreSymptomsPrompt

\* A session over the empty graph has taken three turns, a yes among them.
C19_Witness ==
    /\ db = EmptyGraph
    /\ UserTurns = 3
    /\ last_input = "yes"
    /\ Cardinality(confirmed_symptoms) = 2
    /\ last_response.kind = "prompt"

\* The first turn of a session over the sample graph was 'yellowing leaves'.
YellowingLeavesFirst ==
    /\ db = SampleGraph
    /\ UserTurns = 1
    /\ AfterTurn
    /\ Lower(Strip(last_input)) = "yellowing leaves"

\* C20: on the sample graph a first turn 'yellowing leaves' ranks Iron
\* Chlorosis and Powdery Mildew, both with 1 symptom of 2 matched; it emits
\* no diagnosis and asks about 'stunted growth' or 'white powdery coating',
\* which both score 1.1 (11 tenths); the asked symptom is the last asked
\* symptom of the session.
C20_SampleTieAsksQuestion ==
    YellowingLeavesFirst =>
        /\ confirmed_symptoms = {"yellowing leaves"}
        /\ Len(possible_diseases) = 2
        /\ {possible_diseases[1].name, possible_diseases[2].name} =
              {"Iron Chlorosis", "Powdery Mildew"}
        /\ \A i \in 1..2 :
              /\ possible_diseases[i].match_count = 1
              /\ possible_diseases[i].total_symptoms = 2
        /\ ~PairLess(possible_diseases[1], possible_diseases[2])
        /\ ~PairLess(possible_diseases[2], possible_diseases[1])
        /\ last_response.kind = "question"
        /\ last_response.symptom \in {"stunted growth", "white powdery coating"}
        /\ last_asked_symptom = last_response.symptom
        /\ asked_symptoms = {last_response.symptom}
        /\ ruled_out_symptoms = {}
        /\ FullScore(possible_diseases, "stunted growth") = 11
        /\ FullScore(possible_diseases, "white powdery coating") = 11

\* That turn has been taken and its question is asked.
C20_Witness ==
    /\ YellowingLeavesFirst
    /\ last_response.kind = "question"
    /\ last_asked_symptom # None

\* The first session: its engine, and the argument and result of its last
\* call.
Session ==
    [self |-> Self, last_input |-> last_input, last_response |-> last_response]

\* A step of a session is a step of the session running alone, over a
\* connector of its own that no other call has read: a turn of
\* process_user_input on its own state, or a reset.
SoloStep(graph, before, after) ==
    \/ /\ after.self = ResetConversation(before.self)
       /\ after.last_response = NoResponse("reset")
       /\ after.last_input = before.last_input
    \/ \E llm_ok \in BOOLEAN :
          \E result \in {ProcessUserInput(JSONGraphConnector(graph),
                                         before.self, after.last_input,
                                         llm_ok)} :
              /\ after.self = result.self
              /\ after.last_response = result.response

\* The shared connector lists under every type the nodes of that type, and
\* under every source its relationships, in file order.
IndicesAgree(graph, store) ==
    /\ \A node_type \in NodeTypes(graph) \cup {"Disease", "PlantDisease"} :
          nodes_by_type(Connector(graph, store), node_type) =
              SelectSeq(graph.nodes, LAMBDA node : node.type = node_type)
    /\ \A source \in RelationshipSources(graph) :
          relationships_by_source(Connector(graph, store), source) =
              SelectSeq(graph.relationships, LAMBDA rel : rel.source = source)

\* C16: no operation (a turn of either session, a reset, get_schema, the
\* solutions of a disease, the diagnostic summary) changes the graph or its
\* indices; and with the calls of two sessions over one connector
\* interleaved in any order, every step a session takes over the shared
\* connector, as the calls before it left it, is the step the session
\* takes over a connector of its own, and leaves the other session as it
\* was.
C16_SharedStoreReadOnly ==
    [][/\ db' = db
       /\ indices' = indices
       /\ indices' = BuildIndices(db')
       /\ IndicesAgree(db', indices')
       /\ Session' # Session =>
             /\ peer' = peer
             /\ SoloStep(db, Session, Session')
       /\ peer' # peer =>
             /\ Session' = Session
             /\ SoloStep(db, peer, peer')
       /\ store_reply' # store_reply =>
             /\ Session' = Session
             /\ peer' = peer]_vars

\* Both sessions have taken two turns over the store and are in different
\* states, and the schema was read from the store.
C16_Witness ==
    /\ UserTurns = 2
    /\ PeerTurns = 2
    /\ Self # peer.self
    /\ last_response.kind = "diagnosis"
    /\ peer.last_response.kind = "question"
    /\ store_reply.op = "schema"
    /\ indices = BuildIndices(db)

\* C21: in every state of a session the ruled out symptoms are among the
\* asked ones, and the last asked symptom is none or one of the asked
\* ones: a symptom is ruled out only after the engine asked about it.
C21_RuledOutWasAsked ==
    /\ ruled_out_symptoms \subseteq asked_symptoms
    /\ last_asked_symptom = None \/ last_asked_symptom \in asked_symptoms

\* Two symptoms were asked; the first was ruled out and the second is the
\* last asked one.
C21_Witness ==
    /\ Cardinality(asked_symptoms) = 2
    /\ Cardinality(ruled_out_symptoms) = 1
    /\ last_asked_symptom \in asked_symptoms \ ruled_out_symptoms

\* C22: ruled out symptoms do not influence the ranking: a follow-up turn
\* whose reply is denied leaves the candidates (names, order, match counts
\* and totals) as they were before the turn, and after every turn the
\* candidates are the first 8 entries of the ranking of the confirmed
\* symptoms.
C22_RuledOutOutsideRanking ==
    [][ProcessStep =>
          /\ \E ranked \in {ConnectorFindDiseases(json_connector,
                                                  confirmed_symptoms')} :
                possible_diseases' = SubSeq(ranked, 1, Min(8, Len(ranked)))
          /\ (FollowUpStep /\ ParseResponse(Strip(last_input')) = "denied") =>
                /\ possible_diseases' = possible_diseases
                /\ confirmed_symptoms' = confirmed_symptoms]_vars

\* A denied reply has ruled out a symptom that a candidate shows, and the
\* candidate is still ranked.
C22_Witness ==
    /\ UserTurns >= 2
    /\ ParseResponse(Strip(last_input)) = "denied"
    /\ ruled_out_symptoms # {}
    /\ \E i \in 1..Len(possible_diseases) :
          possible_diseases[i].all_symptoms \cap ruled_out_symptoms # {}


\* The distinct cleaned symptom names linked to the diseases of the graph;
\* their number is the N of the turn bound.
GraphSymptomNames(graph) ==
    UNION {DiseaseSymptoms(graph, DiseaseNodes(graph)[i]) :
              i \in 1..Len(DiseaseNodes(graph))}

\* Every turn of the session so far was answered with a question or a
\* diagnosis: the history holds an assistant entry for each user entry,
\* which is the case exactly when the first symptom matched a disease and
\* no later turn fell back to the prompt for more symptoms.
FirstSymptomMatched ==
    /\ UserTurns >= 1
    /\ Len(conversation_history) = 2 * UserTurns

\* The diagnoses returned so far in such a session: every turn that did
\* not diagnose asked about one symptom not asked before.
DiagnosesReturned == UserTurns - Cardinality(asked_symptoms)

\* C23: in a session whose first symptom matches at least one disease, a
\* diagnosis is returned after at most N+1 turns whatever the replies are,
\* N being the number of distinct cleaned symptom names linked to diseases:
\* the asked symptoms are graph symptoms, so a session of N+1 answered
\* turns has returned a diagnosis; candidates that are non-empty stay
\* non-empty over a turn; and a turn that ends with candidates either
\* diagnoses or asks about a graph symptom that was not asked before and
\* adds exactly it to the asked symptoms.
C23_DiagnosisWithinBound ==
    /\ [](/\ asked_symptoms \subseteq GraphSymptomNames(json_connector)
          /\ (FirstSymptomMatched
                /\ UserTurns >= Cardinality(GraphSymptomNames(json_connector)) + 1) =>
                DiagnosesReturned >= 1)
    /\ [][ProcessStep =>
            /\ possible_diseases # <<>> => possible_diseases' # <<>>
            /\ possible_diseases' # <<>> =>
                  \/ /\ last_response'.kind = "diagnosis"
                     /\ asked_symptoms' = asked_symptoms
                  \/ /\ last_response'.kind = "question"
                     /\ last_response'.symptom \notin asked_symptoms
                     /\ last_response'.symptom \in GraphSymptomNames(json_connector)
                     /\ asked_symptoms' =
                           asked_symptoms \cup {last_response'.symptom}]_vars

\* A session over a graph with three symptom names has reached its fourth
\* turn, every turn answered: two turns asked about the two symptoms the
\* first input left open, and the other two returned a diagnosis.
C23_Witness ==
    /\ FirstSymptomMatched
    /\ Cardinality(GraphSymptomNames(json_connector)) = 3
    /\ UserTurns = Cardinality(GraphSymptomNames(json_connector)) + 1
    /\ Cardinality(asked_symptoms) = 2
    /\ last_response.kind = "diagnosis"

=============================================================================
